---- MODULE Spec2Model ----
(***************************************************************************)
(* Force-push detection of gitea-mirror (src/lib/utils/force-push-         *)
(* detection.ts): one run of detectForcePush as a state machine whose      *)
(* steps are the awaits of the function, with checkAncestry applied to     *)
(* every answer the source host can give to compareCommits.                *)
(***************************************************************************)
EXTENDS Integers, Sequences, FiniteSets, Bags, TLC

\* ------------------------------------------------------------------ bounds

\* Longest branch list a host returns in a run.
MaxBranches == 2

\* Longest branch list of the detection runs a sync attempt draws from.
MaxSyncBranches == 1

\* Requests the approval endpoint receives in a run.
MaxRequests == 1

\* Syncs the schedule starts in a run.
MaxScheduledSyncs == 1

\* ------------------------------------------------------------ value domains

BranchNames == {"main", "dev", "old-branch"}
Shas == {"aaa", "bbb"}

\* interface BranchInfo { name; sha }
BranchInfo == [name : BranchNames, sha : Shas]

\* JavaScript's null and undefined, and "no exception".
Null == "<null>"
Undefined == "<undefined>"
NoError == [cls |-> "<none>", status |-> 0, message |-> "", repr |-> ""]

\* HTTP statuses that checkAncestry reads as "the old SHA is gone".
StatusNotFound == 404
StatusUnprocessable == 422

UniqueNames(s) == \A i, j \in 1..Len(s) : i # j => s[i].name # s[j].name

\* The branch lists a host can return: names are unique within a snapshot.
BranchLists ==
  {s \in UNION {[1..n -> BranchInfo] : n \in 0..MaxBranches} : UniqueNames(s)}

\* Values a rejected promise can carry. cls is the JavaScript class of the
\* thrown value ("NonError" for a thrown value that is no Error), status is
\* its .status property (0 when it has none), message its .message
\* (undefined for a NonError) and repr what String(value) gives.
Err(cls, status, message) ==
  [cls |-> cls, status |-> status, message |-> message,
   repr |-> "Error: " \o message]
Thrown(text) ==
  [cls |-> "NonError", status |-> 0, message |-> Undefined, repr |-> text]

FetchErrors ==
  { Err("HttpError", 404, "not found"),
    Err("HttpError", 500, "HTTP 500: internal error"),
    Err("Error", 404, "Not Found"),
    Err("Error", 0, "rate limited"),
    Err("Error", 0, ""),
    Thrown("socket hang up") }

\* What deps.fetchGiteaBranches / deps.fetchGitHubBranches settle with.
Fulfilled(v) == [ok |-> TRUE, value |-> v, error |-> NoError]
Rejected(e) == [ok |-> FALSE, value |-> <<>>, error |-> e]
FetchOutcomes ==
  {Fulfilled(s) : s \in BranchLists} \cup {Rejected(e) : e \in FetchErrors}

\* What octokit.repos.compareCommits settles with: a status, or an error.
CompareStatuses == {"ahead", "identical", "behind", "diverged", "unknown"}
CompareErrors ==
  { Err("Error", 404, "Not Found"),
    Err("Error", 422, "No common ancestor"),
    Err("Error", 403, "rate limited"),
    Err("Error", 500, "Internal Server Error"),
    Err("Error", 0, "network error") }
CompareOutcomes ==
  {[ok |-> TRUE, status |-> s, error |-> NoError] : s \in CompareStatuses}
    \cup {[ok |-> FALSE, status |-> Undefined, error |-> e] : e \in CompareErrors}

\* ------------------------------------------------------------ pure functions

NO_FORCE_PUSH ==
  [detected |-> FALSE, affectedBranches |-> <<>>, skipped |-> FALSE,
   skipReason |-> Undefined]

skippedResult(reason) ==
  [detected |-> FALSE, affectedBranches |-> <<>>, skipped |-> TRUE,
   skipReason |-> reason]

\* error instanceof Error ? error.message : String(error)
ErrorMessage(error) ==
  IF error.cls \in {"HttpError", "Error"} THEN error.message ELSE error.repr

\* A call of an async function ends by returning a value or by throwing.
Return(v) == [kind |-> "return", value |-> v, error |-> NoError]
Throw(e) == [kind |-> "throw", value |-> FALSE, error |-> e]
NotCalled == [kind |-> "none", value |-> FALSE, error |-> NoError]

checkAncestry_StatusAheadOnly(cmp) ==
  IF cmp.ok
    THEN Return(cmp.status = "ahead")
    ELSE IF cmp.error.status = StatusNotFound \/ cmp.error.status = StatusUnprocessable
           THEN Return(FALSE)
           ELSE Throw(cmp.error)

checkAncestry_SwallowAll(cmp) ==
  IF cmp.ok
    THEN Return(cmp.status = "ahead" \/ cmp.status = "identical")
    ELSE Return(FALSE)

\* checkAncestry, given what compareCommits({base, head}) settled with.
checkAncestry(cmp) ==
  IF cmp.ok
    THEN Return(cmp.status = "ahead" \/ cmp.status = "identical")
    ELSE IF cmp.error.status = StatusNotFound \/ cmp.error.status = StatusUnprocessable
           THEN Return(FALSE)
           ELSE Throw(cmp.error)

\* Without the 404 case: every failure of the Gitea fetch reads the same.
GiteaFetchCatch_No404Case(error) ==
  skippedResult("Failed to fetch Gitea branches: " \o ErrorMessage(error))

\* The catch block of the Gitea fetch.
GiteaFetchCatch(error) ==
  IF error.cls = "HttpError" /\ error.status = 404
    THEN skippedResult("Gitea repository not found (first mirror?)")
    ELSE skippedResult("Failed to fetch Gitea branches: " \o ErrorMessage(error))

\* The catch block of the GitHub fetch.
GitHubFetchCatch(error) ==
  skippedResult("Failed to fetch GitHub branches: " \o ErrorMessage(error))

\* new Map(githubBranches.map((b) => [b.name, b.sha])).get(name):
\* the sha of the last entry of that name, undefined when there is none.
githubBranchMap(branches, name) ==
  LET at == {i \in 1..Len(branches) : branches[i].name = name}
  IN IF at = {} THEN Undefined
     ELSE branches[CHOOSE i \in at : \A j \in at : j <= i].sha

\* A deleted branch reported with the reason of a rewritten one.
DeletedFinding_AsDiverged(giteaBranch) ==
  [name |-> giteaBranch.name, reason |-> "diverged",
   giteaSha |-> giteaBranch.sha, githubSha |-> Null]

DeletedFinding(giteaBranch) ==
  [name |-> giteaBranch.name, reason |-> "deleted",
   giteaSha |-> giteaBranch.sha, githubSha |-> Null]

\* The two commit ids in each other's field.
DivergedFinding_ShasSwapped(giteaBranch, githubSha) ==
  [name |-> giteaBranch.name, reason |-> "diverged",
   giteaSha |-> githubSha, githubSha |-> giteaBranch.sha]

\* A rewritten branch reported with the reserved reason.
DivergedFinding_NonFastForward(giteaBranch, githubSha) ==
  [name |-> giteaBranch.name, reason |-> "non-fast-forward",
   giteaSha |-> giteaBranch.sha, githubSha |-> githubSha]

DivergedFinding(giteaBranch, githubSha) ==
  [name |-> giteaBranch.name, reason |-> "diverged",
   giteaSha |-> giteaBranch.sha, githubSha |-> githubSha]

\* Without the same-SHA shortcut: every branch found on GitHub is checked.
NeedsAncestry_NoShortcut(giteaBranch, githubSha) ==
  githubSha # Undefined

\* The loop body reaches `await deps.checkAncestry` for this branch.
NeedsAncestry(giteaBranch, githubSha) ==
  githubSha # Undefined /\ githubSha # giteaBranch.sha

\* The catch of the ancestry check reports the branch instead of skipping it.
BranchStep_ReportOnThrow(aff, giteaBranch, githubSha, anc) ==
  IF githubSha = Undefined
    THEN [affected |-> Append(aff, DeletedFinding(giteaBranch)), escaped |-> NoError]
    ELSE IF githubSha = giteaBranch.sha
      THEN [affected |-> aff, escaped |-> NoError]
      ELSE IF anc.kind = "throw" \/ ~anc.value
        THEN [affected |-> Append(aff, DivergedFinding(giteaBranch, githubSha)),
              escaped |-> NoError]
        ELSE [affected |-> aff, escaped |-> NoError]

\* No catch around the ancestry check: its exception leaves detectForcePush.
BranchStep_NoCatch(aff, giteaBranch, githubSha, anc) ==
  IF githubSha = Undefined
    THEN [affected |-> Append(aff, DeletedFinding(giteaBranch)), escaped |-> NoError]
    ELSE IF githubSha = giteaBranch.sha
      THEN [affected |-> aff, escaped |-> NoError]
      ELSE IF anc.kind = "throw"
        THEN [affected |-> aff, escaped |-> anc.error]
        ELSE IF ~anc.value
          THEN [affected |-> Append(aff, DivergedFinding(giteaBranch, githubSha)),
                escaped |-> NoError]
          ELSE [affected |-> aff, escaped |-> NoError]

\* Only the first finding of a run is reported.
BranchStep_FirstFindingOnly(aff, giteaBranch, githubSha, anc) ==
  IF aff # <<>>
    THEN [affected |-> aff, escaped |-> NoError]
    ELSE IF githubSha = Undefined
      THEN [affected |-> Append(aff, DeletedFinding(giteaBranch)), escaped |-> NoError]
      ELSE IF githubSha = giteaBranch.sha
        THEN [affected |-> aff, escaped |-> NoError]
        ELSE IF anc.kind = "throw"
          THEN [affected |-> aff, escaped |-> NoError]
          ELSE IF ~anc.value
            THEN [affected |-> Append(aff, DivergedFinding(giteaBranch, githubSha)),
                  escaped |-> NoError]
            ELSE [affected |-> aff, escaped |-> NoError]

\* One iteration of the comparison loop: the findings so far, the branch, its
\* sha on GitHub and how the ancestry check ended (NotCalled when the
\* iteration does not reach it). escaped is the exception leaving the loop.
BranchStep(aff, giteaBranch, githubSha, anc) ==
  IF githubSha = Undefined
    THEN [affected |-> Append(aff, DeletedFinding(giteaBranch)), escaped |-> NoError]
    ELSE IF githubSha = giteaBranch.sha
      THEN [affected |-> aff, escaped |-> NoError]
      ELSE IF anc.kind = "throw"
        THEN [affected |-> aff, escaped |-> NoError]
        ELSE IF ~anc.value
          THEN [affected |-> Append(aff, DivergedFinding(giteaBranch, githubSha)),
                escaped |-> NoError]
          ELSE [affected |-> aff, escaped |-> NoError]

\* The GitHub branches whose name the mirror does not have.
SourceOnly(gitea, github) ==
  SelectSeq(github, LAMBDA b : \A i \in 1..Len(gitea) : gitea[i].name # b.name)

\* A loop over the names of both hosts; a name the mirror lacks has no sha.
LoopBranches_AllNames(gitea, github) ==
  LET extra == SourceOnly(gitea, github)
  IN gitea \o [i \in 1..Len(extra) |-> [name |-> extra[i].name, sha |-> Undefined]]

\* The branches the comparison loop visits, in order, with the sha the loop
\* holds for each: `for (const giteaBranch of giteaBranches)`.
LoopBranches(gitea, github) == gitea

\* The whole comparison loop as a function of the two snapshots and of the
\* outcome of the ancestry check of each branch name.
RECURSIVE RunLoop(_, _, _, _)
RunLoop(aff, branches, github, oracle) ==
  IF branches = <<>>
    THEN aff
    ELSE LET giteaBranch == Head(branches)
             githubSha == githubBranchMap(github, giteaBranch.name)
             anc == IF NeedsAncestry(giteaBranch, githubSha)
                      THEN oracle[giteaBranch.name]
                      ELSE NotCalled
         IN RunLoop(BranchStep(aff, giteaBranch, githubSha, anc).affected,
                    Tail(branches), github, oracle)

\* detected: true although nothing was found.
BuildResult_AlwaysDetected(aff) ==
  [detected |-> TRUE, affectedBranches |-> aff, skipped |-> FALSE,
   skipReason |-> Undefined]

\* The return statements after the loop.
BuildResult(aff) ==
  IF Len(aff) = 0
    THEN NO_FORCE_PUSH
    ELSE [detected |-> TRUE, affectedBranches |-> aff, skipped |-> FALSE,
          skipReason |-> Undefined]

\* ------------------------------------------- protection strategy (repo-backup)

\* type BackupStrategy
Strategies == {"disabled", "always", "on-force-push", "block-on-force-push"}

\* What a strategy field or variable can hold: unset, a valid name, another string.
StrategyFieldValues == Strategies \cup {Undefined, "weekly"}

\* An optional boolean is the set of its values: {} when it is not set.
OptionalBooleans == {{}, {TRUE}, {FALSE}}

\* The part of Config the resolver reads. hasGiteaConfig is false for `{}`.
Configs ==
  {[hasGiteaConfig |-> FALSE, backupStrategy |-> Undefined, backupBeforeSync |-> {}]}
    \cup [hasGiteaConfig : {TRUE}, backupStrategy : StrategyFieldValues,
          backupBeforeSync : OptionalBooleans]

\* The part of process.env the resolver reads.
Envs ==
  [PRE_SYNC_BACKUP_STRATEGY : StrategyFieldValues,
   PRE_SYNC_BACKUP_ENABLED : {Undefined, "true", "false"}]

\* The legacy boolean is looked at before the explicit field.
resolveBackupStrategy_LegacyFirst(config, env) ==
  IF config.backupBeforeSync # {}
    THEN IF TRUE \in config.backupBeforeSync THEN "always" ELSE "disabled"
    ELSE IF config.backupStrategy \in Strategies
      THEN config.backupStrategy
      ELSE IF env.PRE_SYNC_BACKUP_STRATEGY \in Strategies
        THEN env.PRE_SYNC_BACKUP_STRATEGY
        ELSE IF env.PRE_SYNC_BACKUP_ENABLED = "false"
          THEN "disabled"
          ELSE "on-force-push"

\* An explicit field is returned without being validated.
resolveBackupStrategy_Unvalidated(config, env) ==
  IF config.backupStrategy # Undefined
    THEN config.backupStrategy
    ELSE IF config.backupBeforeSync # {}
      THEN IF TRUE \in config.backupBeforeSync THEN "always" ELSE "disabled"
      ELSE IF env.PRE_SYNC_BACKUP_STRATEGY \in Strategies
        THEN env.PRE_SYNC_BACKUP_STRATEGY
        ELSE IF env.PRE_SYNC_BACKUP_ENABLED = "false"
          THEN "disabled"
          ELSE "on-force-push"

\* resolveBackupStrategy(config), with the environment it reads made a parameter.
resolveBackupStrategy(config, env) ==
  IF config.backupStrategy \in Strategies
    THEN config.backupStrategy
    ELSE IF config.backupBeforeSync # {}
      THEN IF TRUE \in config.backupBeforeSync THEN "always" ELSE "disabled"
      ELSE IF env.PRE_SYNC_BACKUP_STRATEGY \in Strategies
        THEN env.PRE_SYNC_BACKUP_STRATEGY
        ELSE IF env.PRE_SYNC_BACKUP_ENABLED = "false"
          THEN "disabled"
          ELSE "on-force-push"

\* The option the settings form marks as selected:
\* (giteaConfig.backupStrategy ?? "on-force-push") === opt.value
formSelectedStrategy(giteaConfig) ==
  IF giteaConfig.backupStrategy = Undefined
    THEN "on-force-push"
    ELSE giteaConfig.backupStrategy

\* The blocking strategy never takes a snapshot.
shouldBackupForStrategy_BlockNeverBacksUp(strategy, detected) ==
  CASE strategy = "disabled" -> FALSE
    [] strategy = "always" -> TRUE
    [] strategy = "on-force-push" -> detected
    [] OTHER -> FALSE

shouldBackupForStrategy(strategy, detected) ==
  CASE strategy = "disabled" -> FALSE
    [] strategy = "always" -> TRUE
    [] strategy = "on-force-push" -> detected
    [] strategy = "block-on-force-push" -> detected
    [] OTHER -> FALSE

\* The blocking strategy blocks whether or not a force-push was detected.
shouldBlockSyncForStrategy_IgnoresDetected(strategy, detected) ==
  strategy = "block-on-force-push"

shouldBlockSyncForStrategy(strategy, detected) ==
  strategy = "block-on-force-push" /\ detected

\* Detection runs for every strategy but disabled.
strategyNeedsDetection_AllButDisabled(strategy) ==
  strategy # "disabled"

strategyNeedsDetection(strategy) ==
  strategy \in {"on-force-push", "block-on-force-push"}

\* ------------------------------------------------- detection as one function

\* detectForcePush as a function of what the two fetches settle with and of
\* how the ancestry check of each branch name ends.
detectForcePush(giteaOut, githubOut, oracle) ==
  IF ~giteaOut.ok
    THEN GiteaFetchCatch(giteaOut.error)
    ELSE IF Len(giteaOut.value) = 0
      THEN skippedResult("No Gitea branches found (first mirror?)")
      ELSE IF ~githubOut.ok
        THEN GitHubFetchCatch(githubOut.error)
        ELSE BuildResult(
               RunLoop(<<>>, LoopBranches(giteaOut.value, githubOut.value),
                       githubOut.value, oracle))

\* The inputs of the detection runs of a sync attempt.
SyncBranchNames == {"main", "dev"}
SyncBranchLists ==
  {s \in UNION {[1..n -> [name : SyncBranchNames, sha : Shas]] : n \in 0..MaxSyncBranches} :
     UniqueNames(s)}
SyncFetchOutcomes ==
  {Fulfilled(s) : s \in SyncBranchLists} \cup {Rejected(e) : e \in FetchErrors}
OracleAnswers == {checkAncestry(cmp) : cmp \in CompareOutcomes}

\* The mirror branches of a run that the source has with another sha.
DifferingNames(giteaOut, githubOut) ==
  IF giteaOut.ok /\ githubOut.ok
    THEN {giteaOut.value[i].name : i \in
            {j \in 1..Len(giteaOut.value) :
               NeedsAncestry(giteaOut.value[j],
                             githubBranchMap(githubOut.value, giteaOut.value[j].name))}}
    ELSE {}

\* The mirror branches of a run that the source does not have.
DeletedNames(giteaOut, githubOut) ==
  IF giteaOut.ok /\ githubOut.ok
    THEN {giteaOut.value[i].name : i \in
            {j \in 1..Len(giteaOut.value) :
               githubBranchMap(githubOut.value, giteaOut.value[j].name) = Undefined}}
    ELSE {}

\* What a sync attempt sees of one detection run: the result, and how many
\* of its branches were missing on the source, answered by the ancestry
\* check, and left unanswered because the check threw.
DetectionRun(giteaOut, githubOut, oracle) ==
  LET differing == DifferingNames(giteaOut, githubOut)
  IN [ran |-> TRUE,
      result |-> detectForcePush(giteaOut, githubOut, oracle),
      deleted |-> Cardinality(DeletedNames(giteaOut, githubOut)),
      answered |-> Cardinality({n \in differing : oracle[n].kind = "return"}),
      failed |-> Cardinality({n \in differing : oracle[n].kind = "throw"})]

DetectionRuns ==
  {DetectionRun(g, h, o) :
     g \in SyncFetchOutcomes, h \in SyncFetchOutcomes,
     o \in [SyncBranchNames -> OracleAnswers]}

\* Detection was not run: the sync goes on as if nothing was detected.
NoRun ==
  [ran |-> FALSE, result |-> NO_FORCE_PUSH, deleted |-> 0, answered |-> 0, failed |-> 0]

\* ------------------------------------------- sync attempt (gitea-enhanced)

\* enum RepositorySyncState
RepoStatuses == {"synced", "syncing", "pending-approval", "error"}

\* A failed snapshot stops the sync.
shouldBlockSyncOnBackupFailure_IgnoresFlag(strategy, blockSyncOnBackupFailure) ==
  strategy \in {"always", "on-force-push"}
shouldBlockSyncOnBackupFailure(strategy, blockSyncOnBackupFailure) ==
  blockSyncOnBackupFailure /\ strategy \in {"always", "on-force-push"}

\* The detection runs a sync can see: none when the strategy needs no
\* detection or the caller passed skipForcePushDetection.
SyncRuns_IgnoresSkip(strategy, skipForcePushDetection) ==
  IF strategyNeedsDetection(strategy) THEN DetectionRuns ELSE {NoRun}
SyncRuns(strategy, skipForcePushDetection) ==
  IF strategyNeedsDetection(strategy) /\ ~skipForcePushDetection
    THEN DetectionRuns
    ELSE {NoRun}

\* The sync returns early with the repository held for approval.
SyncBlocks(strategy, run) ==
  shouldBlockSyncForStrategy(strategy, run.result.detected)

\* The sync takes a snapshot before the mirror-sync.
SyncBacksUp(strategy, run) ==
  shouldBackupForStrategy(strategy, run.result.detected)

\* The statuses a sync can leave a repository in.
SyncFinalStatuses(skipForcePushDetection) ==
  {"synced", "error"} \cup
  {"pending-approval" : x \in
     {<<st, run>> \in Strategies \X (DetectionRuns \cup {NoRun}) :
        run \in SyncRuns(st, skipForcePushDetection) /\ SyncBlocks(st, run)}}

\* ------------------------------------- approval endpoint (approve-sync.ts)

\* Rows of the repositories table and their owners.
RepoRows == <<"r1", "r2">>
Repos == {RepoRows[i] : i \in 1..Len(RepoRows)}
Users == {"alice", "bob", "carol"}
repoUserId == [r \in Repos |-> "alice"]

\* The users with a row in the configs table.
ConfiguredUsers == {"alice", "bob"}

\* The request body: repositoryIds (the empty set stands for a missing,
\* non-array or empty value, which the handler treats alike) and action.
RequestActions == {"approve", "dismiss", "delete"}
RequestBodies == [repositoryIds : SUBSET Repos, action : RequestActions]

\* The for-of loops visit the selected rows in table order.
InTableOrder(ids) ==
  LET Selected(r) == r \in ids
  IN SelectSeq(RepoRows, Selected)

\* and(eq(userId), eq(status, "pending-approval"), inArray(id, repositoryIds))
SelectPending_AnyOwner(userId, repositoryIds, status) ==
  InTableOrder({r \in repositoryIds : status[r] = "pending-approval"})
SelectPending(userId, repositoryIds, status) ==
  InTableOrder({r \in repositoryIds :
                  repoUserId[r] = userId /\ status[r] = "pending-approval"})

\* The schedule takes up a repository that is synced or in error.
SchedulePicks(status) == status \in {"synced", "error"}

\* errorMessage as a sync leaves it.
SyncErrorMessage(status) ==
  CASE status = "error" -> "sync failed"
    [] status = "pending-approval" -> "force-push detected"
    [] OTHER -> Null

\* --------------------------------------- backup orchestrator (repo-backup)

MaxNameLen == 2
MaxSnapshots == 22
MaxRetentionInput == 2
DefaultRetention == 20

\* Owner and repository names as an external host reports them: strings over
\* a letter, the dot, the underscore and the slash.
NameChars == {"a", ".", "_", "/"}
PathNames == UNION {[1..n -> NameChars] : n \in 1..MaxNameLen}

\* The characters of [A-Za-z0-9._-] among NameChars.
SafeChars == {"a", ".", "_"}

\* Every character outside [A-Za-z0-9._-] becomes "_".
sanitizePathSegment(input) ==
  [i \in 1..Len(input) |-> IF input[i] \in SafeChars THEN input[i] ELSE "_"]

\* path.join of segments that hold no separator, from the root "/": "." is
\* dropped and ".." removes the segment before it.
RECURSIVE pathNormalize(_, _)
pathNormalize(done, rest) ==
  IF rest = <<>>
    THEN done
    ELSE LET segment == Head(rest)
         IN pathNormalize(
              IF segment = <<".">>
                THEN done
                ELSE IF segment = <<".", ".">>
                  THEN SubSeq(done, 1, Len(done) - 1)
                  ELSE Append(done, segment),
              Tail(rest))
pathJoin(segments) == pathNormalize(<<>>, segments)

\* backupDirectory "/backups" and userId "user-123" of the test.
BackupRoot == << <<"backups">> >>
UserIdSegment == <<"user-123">>

resolveBackupPaths(owner, repoName) ==
  [backupRoot |-> BackupRoot,
   repoBackupDir |->
     pathJoin(BackupRoot \o <<UserIdSegment, sanitizePathSegment(owner),
                              sanitizePathSegment(repoName)>>)]

\* The value of the retention input: {} when parseInt gives NaN, {n} else.
RetentionInputs == {{}} \cup {{n} : n \in -1..MaxRetentionInput}

\* Math.max(1, Number.parseInt(e.target.value, 10) || 20)
backupRetentionCountFromInput_NoMinimum(value) ==
  LET parsed == IF value = {} THEN 0 ELSE CHOOSE n \in value : TRUE
  IN IF parsed = 0 THEN 20 ELSE parsed
backupRetentionCountFromInput(value) ==
  LET parsed == IF value = {} THEN 0 ELSE CHOOSE n \in value : TRUE
      orDefault == IF parsed = 0 THEN 20 ELSE parsed
  IN IF orDefault < 1 THEN 1 ELSE orDefault

\* giteaConfig.backupRetentionCount ?? 20
retentionCount(backupRetentionCount) ==
  IF backupRetentionCount = {}
    THEN DefaultRetention
    ELSE CHOOSE n \in backupRetentionCount : TRUE

\* force bypasses the gate of the strategy.
backupAttempted_ForceGated(strategy, detected, force) ==
  shouldBackupForStrategy(strategy, detected)
backupAttempted(strategy, detected, force) ==
  force \/ shouldBackupForStrategy(strategy, detected)

\* A snapshot file: <timestamp>.bundle and its creation time as the
\* directory listing reports it, which is coarser than the timestamp.
Snapshot(timestamp) == [file |-> timestamp, mtime |-> timestamp \div 2]

\* Creation time first, the filename among equal creation times.
Newer(t, s) ==
  \/ t.mtime > s.mtime
  \/ t.mtime = s.mtime /\ t.file > s.file

\* Retention pruning: the oldest snapshots beyond the count are deleted.
pruneSnapshots(snaps, keep) ==
  {s \in snaps : Cardinality({t \in snaps : Newer(t, s)}) < keep}

\* ------------------------------------------ fetchGiteaBranches (pagination)

MaxRepoBranches == 101
perPage == 50

\* The i-th branch the mirror host holds, as the branches API lists it.
HostBranch(i) == [name |-> i, commit |-> [id |-> 1000 + i]]

\* branches?page=<page>&limit=<limit> as the host serves it: the page-th
\* slice of the repository's branch list.
HostPage(count, page, limit) ==
  LET first == (page - 1) * limit + 1
      last == IF page * limit < count THEN page * limit ELSE count
  IN IF first > count
       THEN <<>>
       ELSE [i \in 1..(last - first + 1) |-> HostBranch(first + i - 1)]

\* branches.push({ name: b.name, sha: b.commit.id }) for every b of a page.
PushPage(collected, data) ==
  collected \o [i \in 1..Len(data) |-> [name |-> data[i].name, sha |-> data[i].commit.id]]

\* What a request ended with: the page, a body that is not an array, or an
\* exception of httpGet.
HttpOutcomes == {"array", "not-array", "throw"}

\* ------------------------------------------------------------------- state

VARIABLES
  pc,              \* where detectForcePush is: its next await, or how it ended
  giteaFetch,      \* what deps.fetchGiteaBranches settled with
  githubFetch,     \* what deps.fetchGitHubBranches settled with
  giteaBranches,   \* local giteaBranches
  githubBranches,  \* local githubBranches
  idx,             \* position of the for-of loop in giteaBranches
  affected,        \* local affected
  ancestryCalls,   \* the calls of deps.checkAncestry made so far
  result,          \* the value detectForcePush resolved with
  escaped          \* the exception detectForcePush rejected with

\* One evaluation of the strategy functions for a configuration.
VARIABLES
  spc,             \* its position: "idle", "resolve", "decide", "done"
  config,          \* the configuration read
  env,             \* the environment read
  strategy,        \* what resolveBackupStrategy returned
  decision         \* what the three predicates returned for one detected flag

detectVars ==
  <<pc, giteaFetch, githubFetch, giteaBranches, githubBranches, idx, affected,
    ancestryCalls, result, escaped>>

strategyVars == <<spc, config, env, strategy, decision>>

\* One sync attempt of one repository (syncGiteaRepoEnhanced).
VARIABLES
  syncPc,          \* "off", "idle", "detect", "decide", "backup", "mirror", "done"
  syncStatus,      \* the status column of the repository
  syncOptions,     \* the strategy and flags the attempt runs with
  syncRun,         \* what the attempt saw of detection
  syncBackup,      \* "none", "created" or "failed"
  syncPushed,      \* the mirror-sync was requested from Gitea
  syncEvents       \* the activity entries the attempt recorded

syncVars ==
  <<syncPc, syncStatus, syncOptions, syncRun, syncBackup, syncPushed, syncEvents>>

\* The repositories table, the requests to the approval endpoint with
\* their background tasks, and what they and the schedule have done.
VARIABLES
  repoStatus,        \* repositories.status of each row
  repoErrorMessage,  \* repositories.errorMessage of each row
  syncLock,          \* who runs a sync of the repository: "free", "schedule", "approve"
  scheduled,         \* the syncs the schedule has started
  requests,          \* each POST: its position, user, body, selected rows, response
  tasks,             \* each setTimeout callback: its position and its row
  mirrorJobs,        \* the createMirrorJob calls that succeeded (a bag)
  backups,           \* the createPreSyncBundleBackup calls that ended
  syncCalls          \* the syncs started

approveVars ==
  <<repoStatus, repoErrorMessage, syncLock, scheduled, requests, tasks,
    mirrorJobs, backups, syncCalls>>

\* One call of resolveBackupPaths.
VARIABLES
  pathPc,          \* "off", "call" or "done"
  pathArgs,        \* owner and repoName
  pathResult       \* backupRoot and repoBackupDir

pathVars == <<pathPc, pathArgs, pathResult>>

\* The backup directory of one repository and the calls of
\* createPreSyncBundleBackup for it.
VARIABLES
  backupPc,          \* "off" or "ready"
  backupConfig,      \* backupStrategy and backupRetentionCount ({} when unset)
  snapshots,         \* the bundle files in the directory
  snapshotsCreated,  \* how many were created; the clock of the timestamps
  lastCall           \* the last call: its arguments and what it did

backupVars == <<backupPc, backupConfig, snapshots, snapshotsCreated, lastCall>>

orchestratorVars == <<pathVars, backupVars>>

\* One call of fetchGiteaBranches against a repository of the mirror host.
VARIABLES
  fetchPc,         \* "off", "request", "returned" or "failed"
  hostBranchCount, \* how many branches the repository holds
  page,            \* local page
  fetchedBranches, \* local branches
  httpCalls        \* the requests made: page, limit and how each ended

fetchVars == <<fetchPc, hostBranchCount, page, fetchedBranches, httpCalls>>

vars ==
  <<detectVars, strategyVars, syncVars, approveVars, orchestratorVars, fetchVars>>

\* fetchGiteaBranches is not running.
FetchIdle ==
  /\ fetchPc = "off"
  /\ hostBranchCount = 0
  /\ page = 1
  /\ fetchedBranches = <<>>
  /\ httpCalls = <<>>

NoPathArgs == [owner |-> <<>>, repoName |-> <<>>]
NoPaths == [backupRoot |-> <<>>, repoBackupDir |-> <<>>]

\* No path resolution is under way.
PathIdle ==
  /\ pathPc = "off"
  /\ pathArgs = NoPathArgs
  /\ pathResult = NoPaths

NoBackupConfig == [backupStrategy |-> "disabled", backupRetentionCount |-> {}]
NoCall ==
  [made |-> FALSE, detected |-> FALSE, force |-> FALSE, attempted |-> FALSE,
   created |-> FALSE]

\* No backup directory is looked at.
BackupIdle ==
  /\ backupPc = "off"
  /\ backupConfig = NoBackupConfig
  /\ snapshots = {}
  /\ snapshotsCreated = 0
  /\ lastCall = NoCall

OrchestratorIdle == PathIdle /\ BackupIdle

Pending == [ok |-> FALSE, value |-> <<>>, error |-> NoError]
NoResult ==
  [detected |-> FALSE, affectedBranches |-> <<>>, skipped |-> FALSE,
   skipReason |-> "<pending>"]

NoConfig == [hasGiteaConfig |-> FALSE, backupStrategy |-> Undefined, backupBeforeSync |-> {}]
NoEnv == [PRE_SYNC_BACKUP_STRATEGY |-> Undefined, PRE_SYNC_BACKUP_ENABLED |-> Undefined]
NoDecision ==
  [detected |-> FALSE, backup |-> FALSE, block |-> FALSE, needsDetection |-> FALSE]

\* No strategy evaluation is under way.
StrategyIdle ==
  /\ spc = "idle"
  /\ config = NoConfig
  /\ env = NoEnv
  /\ strategy = Undefined
  /\ decision = NoDecision

NewRequest ==
  [pc |-> "new", userId |-> Undefined, repositoryIds |-> {}, action |-> Undefined,
   repos |-> <<>>, next |-> 1, response |-> 0]
NoTask == [pc |-> "none", next |-> 1]
RequestIds == 1..MaxRequests

\* No request was made and no sync was scheduled.
ApproveIdle ==
  /\ repoStatus = [r \in Repos |-> "synced"]
  /\ repoErrorMessage = [r \in Repos |-> Null]
  /\ syncLock = [r \in Repos |-> "off"]
  /\ scheduled = 0
  /\ requests = <<>>
  /\ tasks = <<>>
  /\ mirrorJobs = EmptyBag
  /\ backups = {}
  /\ syncCalls = {}

NoOptions ==
  [strategy |-> "disabled", skipForcePushDetection |-> FALSE,
   blockSyncOnBackupFailure |-> FALSE]

\* No sync attempt is under way.
SyncIdle ==
  /\ syncPc = "off"
  /\ syncStatus = "synced"
  /\ syncOptions = NoOptions
  /\ syncRun = NoRun
  /\ syncBackup = "none"
  /\ syncPushed = FALSE
  /\ syncEvents = {}

\* No detection run is under way.
DetectIdle ==
  /\ pc = "idle"
  /\ giteaFetch = Pending
  /\ githubFetch = Pending
  /\ giteaBranches = <<>>
  /\ githubBranches = <<>>
  /\ idx = 1
  /\ affected = <<>>
  /\ ancestryCalls = <<>>
  /\ result = NoResult
  /\ escaped = NoError

Init ==
  /\ OrchestratorIdle
  /\ FetchIdle
  /\ StrategyIdle
  /\ SyncIdle
  /\ ApproveIdle
  /\ pc = "fetchGitea"
  /\ giteaFetch = Pending
  /\ githubFetch = Pending
  /\ giteaBranches = <<>>
  /\ githubBranches = <<>>
  /\ idx = 1
  /\ affected = <<>>
  /\ ancestryCalls = <<>>
  /\ result = NoResult
  /\ escaped = NoError

\* Step 1: await deps.fetchGiteaBranches, its catch, and the empty-list return.
FetchGitea_EmptyGoesOn ==
  /\ pc = "fetchGitea"
  /\ \E out \in FetchOutcomes :
       /\ giteaFetch' = out
       /\ IF ~out.ok
            THEN /\ result' = GiteaFetchCatch(out.error)
                 /\ pc' = "done"
                 /\ giteaBranches' = giteaBranches
            ELSE /\ result' = result
                 /\ pc' = "fetchGitHub"
                 /\ giteaBranches' = out.value
  /\ UNCHANGED <<githubFetch, githubBranches, idx, affected, ancestryCalls, escaped>>
FetchGitea ==
  /\ pc = "fetchGitea"
  /\ \E out \in FetchOutcomes :
       /\ giteaFetch' = out
       /\ IF ~out.ok
            THEN /\ result' = GiteaFetchCatch(out.error)
                 /\ pc' = "done"
                 /\ giteaBranches' = giteaBranches
            ELSE IF Len(out.value) = 0
              THEN /\ result' = skippedResult("No Gitea branches found (first mirror?)")
                   /\ pc' = "done"
                   /\ giteaBranches' = out.value
              ELSE /\ result' = result
                   /\ pc' = "fetchGitHub"
                   /\ giteaBranches' = out.value
  /\ UNCHANGED <<githubFetch, githubBranches, idx, affected, ancestryCalls, escaped>>

\* Step 2: await deps.fetchGitHubBranches and its catch.
FetchGitHub ==
  /\ pc = "fetchGitHub"
  /\ \E out \in FetchOutcomes :
       /\ githubFetch' = out
       /\ IF ~out.ok
            THEN /\ result' = GitHubFetchCatch(out.error)
                 /\ pc' = "done"
                 /\ githubBranches' = githubBranches
            ELSE /\ result' = result
                 /\ pc' = "compare"
                 /\ githubBranches' = out.value
  /\ UNCHANGED <<giteaFetch, giteaBranches, idx, affected, ancestryCalls, escaped>>

\* Step 3: one iteration of `for (const giteaBranch of giteaBranches)`.
CompareBranch ==
  /\ pc = "compare"
  /\ idx <= Len(LoopBranches(giteaBranches, githubBranches))
  /\ LET giteaBranch == LoopBranches(giteaBranches, githubBranches)[idx]
         githubSha == githubBranchMap(githubBranches, giteaBranch.name)
     IN IF NeedsAncestry(giteaBranch, githubSha)
          THEN \E cmp \in CompareOutcomes :
                 LET anc == checkAncestry(cmp)
                     step == BranchStep(affected, giteaBranch, githubSha, anc)
                 IN /\ ancestryCalls' =
                         Append(ancestryCalls,
                                [name |-> giteaBranch.name, baseSha |-> giteaBranch.sha,
                                 headSha |-> githubSha, compare |-> cmp, outcome |-> anc])
                    /\ affected' = step.affected
                    /\ escaped' = step.escaped
                    /\ pc' = IF step.escaped # NoError THEN "rejected" ELSE "compare"
          ELSE LET step == BranchStep(affected, giteaBranch, githubSha, NotCalled)
               IN /\ ancestryCalls' = ancestryCalls
                  /\ affected' = step.affected
                  /\ escaped' = step.escaped
                  /\ pc' = IF step.escaped # NoError THEN "rejected" ELSE "compare"
  /\ idx' = idx + 1
  /\ UNCHANGED <<giteaFetch, githubFetch, giteaBranches, githubBranches, result>>

\* The loop is over: return NO_FORCE_PUSH or the detected result.
Finish ==
  /\ pc = "compare"
  /\ idx > Len(LoopBranches(giteaBranches, githubBranches))
  /\ result' = BuildResult(affected)
  /\ pc' = "done"
  /\ UNCHANGED <<giteaFetch, githubFetch, giteaBranches, githubBranches, idx,
                 affected, ancestryCalls, escaped>>

Next ==
  /\ FetchGitea \/ FetchGitHub \/ CompareBranch \/ Finish
  /\ UNCHANGED <<strategyVars, syncVars, approveVars, orchestratorVars, fetchVars>>

Spec == Init /\ [][Next]_vars

\* Every await of the run settles.
SpecFair == Spec /\ WF_vars(Next)

\* ---------------------------------------------- strategy evaluation as steps

InitStrategy ==
  /\ OrchestratorIdle
  /\ FetchIdle
  /\ DetectIdle
  /\ SyncIdle
  /\ ApproveIdle
  /\ spc = "resolve"
  /\ config \in Configs
  /\ env \in Envs
  /\ strategy = Undefined
  /\ decision = NoDecision

\* const strategy = resolveBackupStrategy(config)
ResolveStrategy ==
  /\ spc = "resolve"
  /\ strategy' = resolveBackupStrategy(config, env)
  /\ spc' = "decide"
  /\ UNCHANGED <<config, env, decision>>

\* The three predicates applied to the resolved strategy and a detected flag.
DecideForStrategy ==
  /\ spc = "decide"
  /\ \E detected \in BOOLEAN :
       decision' =
         [detected |-> detected,
          backup |-> shouldBackupForStrategy(strategy, detected),
          block |-> shouldBlockSyncForStrategy(strategy, detected),
          needsDetection |-> strategyNeedsDetection(strategy)]
  /\ spc' = "done"
  /\ UNCHANGED <<config, env, strategy>>

NextStrategy ==
  /\ ResolveStrategy \/ DecideForStrategy
  /\ UNCHANGED <<detectVars, syncVars, approveVars, orchestratorVars, fetchVars>>

SpecStrategy == InitStrategy /\ [][NextStrategy]_vars

\* ------------------------------------------------- one sync attempt as steps

\* A repository row as the scheduler or the approval endpoint finds it.
InitSync ==
  /\ OrchestratorIdle
  /\ FetchIdle
  /\ DetectIdle
  /\ StrategyIdle
  /\ ApproveIdle
  /\ syncPc = "idle"
  /\ syncStatus \in {"synced", "error", "pending-approval"}
  /\ syncOptions = NoOptions
  /\ syncRun = NoRun
  /\ syncBackup = "none"
  /\ syncPushed = FALSE
  /\ syncEvents = {}

\* The sync is triggered: by the schedule for a repository that is synced or
\* in error, by an approval (with detection skipped) for one held for
\* approval. The configuration is read and the strategy resolved.
SyncTrigger ==
  /\ syncPc = "idle"
  /\ \E cfg \in Configs, e \in Envs, flag \in BOOLEAN :
       syncOptions' =
         [strategy |-> resolveBackupStrategy(cfg, e),
          skipForcePushDetection |-> (syncStatus = "pending-approval"),
          blockSyncOnBackupFailure |-> flag]
  /\ syncStatus' = "syncing"
  /\ syncPc' = "detect"
  /\ UNCHANGED <<syncRun, syncBackup, syncPushed, syncEvents>>

\* If strategy needs detection: detectForcePush.
SyncDetect ==
  /\ syncPc = "detect"
  /\ syncRun' \in SyncRuns(syncOptions.strategy, syncOptions.skipForcePushDetection)
  /\ syncPc' = "decide"
  /\ UNCHANGED <<syncStatus, syncOptions, syncBackup, syncPushed, syncEvents>>

\* If "block-on-force-push" + detected: set repo status to
\* "pending-approval", return early.
SyncDecide ==
  /\ syncPc = "decide"
  /\ IF SyncBlocks(syncOptions.strategy, syncRun)
       THEN /\ syncStatus' = "pending-approval"
            /\ syncEvents' = syncEvents \cup {"blocked"}
            /\ syncPc' = "done"
       ELSE /\ syncPc' = "backup"
            /\ UNCHANGED <<syncStatus, syncEvents>>
  /\ UNCHANGED <<syncOptions, syncRun, syncBackup, syncPushed>>

\* If backup needed: create git bundle snapshot. A failure stops the sync
\* when the configuration asks for it, and is logged otherwise.
SyncBackup ==
  /\ syncPc = "backup"
  /\ IF SyncBacksUp(syncOptions.strategy, syncRun)
       THEN \E created \in BOOLEAN :
              IF created
                THEN /\ syncBackup' = "created"
                     /\ syncPc' = "mirror"
                     /\ UNCHANGED <<syncStatus, syncEvents>>
                ELSE /\ syncBackup' = "failed"
                     /\ syncEvents' = syncEvents \cup {"backup-failed"}
                     /\ IF shouldBlockSyncOnBackupFailure(
                             syncOptions.strategy, syncOptions.blockSyncOnBackupFailure)
                          THEN syncStatus' = "error" /\ syncPc' = "done"
                          ELSE syncStatus' = syncStatus /\ syncPc' = "mirror"
       ELSE /\ syncPc' = "mirror"
            /\ UNCHANGED <<syncStatus, syncBackup, syncEvents>>
  /\ UNCHANGED <<syncOptions, syncRun, syncPushed>>

\* Proceed to mirror-sync; its outcome is the final status.
SyncMirror ==
  /\ syncPc = "mirror"
  /\ syncPushed' = TRUE
  /\ syncStatus' \in {"synced", "error"}
  /\ syncPc' = "done"
  /\ UNCHANGED <<syncOptions, syncRun, syncBackup, syncEvents>>

NextSync ==
  /\ SyncTrigger \/ SyncDetect \/ SyncDecide \/ SyncBackup \/ SyncMirror
  /\ UNCHANGED <<detectVars, strategyVars, approveVars, orchestratorVars, fetchVars>>

SpecSync == InitSync /\ [][NextSync]_vars

\* ------------------------------------------------ approval endpoint as steps

\* The repositories as a server start finds them: synced, or held for
\* approval by an earlier sync.
InitApprove ==
  /\ OrchestratorIdle
  /\ FetchIdle
  /\ DetectIdle
  /\ StrategyIdle
  /\ SyncIdle
  /\ repoStatus \in [Repos -> {"synced", "pending-approval"}]
  /\ repoErrorMessage = [r \in Repos |-> SyncErrorMessage(repoStatus[r])]
  /\ syncLock = [r \in Repos |-> "free"]
  /\ scheduled = 0
  /\ requests = [q \in RequestIds |-> NewRequest]
  /\ tasks = [q \in RequestIds |-> NoTask]
  /\ mirrorJobs = EmptyBag
  /\ backups = {}
  /\ syncCalls = {}

Respond(q, code) ==
  requests' = [requests EXCEPT ![q].pc = "responded", ![q].response = code]

\* The validation without the check of the action (lines 34-39 left out).
ReceiveRequest_NoActionCheck(q) ==
  /\ requests[q].pc = "new"
  /\ \A earlier \in RequestIds : earlier < q => requests[earlier].pc # "new"
  /\ \E userId \in Users \cup {Undefined}, body \in RequestBodies :
       LET received ==
             [requests[q] EXCEPT !.userId = userId,
                                 !.repositoryIds = body.repositoryIds,
                                 !.action = body.action]
       IN IF userId = Undefined
            THEN Respond(q, 401)
            ELSE IF body.repositoryIds = {}
            THEN requests' = [requests EXCEPT ![q] =
                   [received EXCEPT !.pc = "responded", !.response = 400]]
            ELSE IF FALSE
              THEN requests' = [requests EXCEPT ![q] =
                     [received EXCEPT !.pc = "responded", !.response = 400]]
              ELSE IF userId \notin ConfiguredUsers
                THEN requests' = [requests EXCEPT ![q] =
                       [received EXCEPT !.pc = "responded", !.response = 400]]
                ELSE requests' = [requests EXCEPT ![q] =
                       [received EXCEPT !.pc = "select"]]
  /\ UNCHANGED <<repoStatus, repoErrorMessage, syncLock, scheduled, tasks,
                 mirrorJobs, backups, syncCalls>>

\* POST, lines 18-54: authentication (a request without a session is
\* answered by the guard before the body is read), the body and its
\* validation, the configuration of the user.
ReceiveRequest(q) ==
  /\ requests[q].pc = "new"
  /\ \A earlier \in RequestIds : earlier < q => requests[earlier].pc # "new"
  /\ \E userId \in Users \cup {Undefined}, body \in RequestBodies :
       LET received ==
             [requests[q] EXCEPT !.userId = userId,
                                 !.repositoryIds = body.repositoryIds,
                                 !.action = body.action]
       IN IF userId = Undefined
            THEN Respond(q, 401)
            ELSE IF body.repositoryIds = {}
            THEN requests' = [requests EXCEPT ![q] =
                   [received EXCEPT !.pc = "responded", !.response = 400]]
            ELSE IF body.action # "approve" /\ body.action # "dismiss"
              THEN requests' = [requests EXCEPT ![q] =
                     [received EXCEPT !.pc = "responded", !.response = 400]]
              ELSE IF userId \notin ConfiguredUsers
                THEN requests' = [requests EXCEPT ![q] =
                       [received EXCEPT !.pc = "responded", !.response = 400]]
                ELSE requests' = [requests EXCEPT ![q] =
                       [received EXCEPT !.pc = "select"]]
  /\ UNCHANGED <<repoStatus, repoErrorMessage, syncLock, scheduled, tasks,
                 mirrorJobs, backups, syncCalls>>

\* Lines 56-73 and, for approve, 111-173: the pending-approval rows among the
\* ids, 404 when there is none, and the background task set up by setTimeout
\* before the status loop.
SelectRepos(q) ==
  /\ requests[q].pc = "select"
  /\ LET repos == SelectPending(requests[q].userId, requests[q].repositoryIds,
                                repoStatus)
     IN IF Len(repos) = 0
          THEN /\ Respond(q, 404)
               /\ tasks' = tasks
          ELSE IF requests[q].action = "dismiss"
            THEN /\ requests' = [requests EXCEPT ![q].pc = "dismissUpdate",
                                                 ![q].repos = repos]
                 /\ tasks' = tasks
            ELSE \E decrypted \in BOOLEAN :
                   IF decrypted
                     THEN /\ requests' = [requests EXCEPT ![q].pc = "approveUpdate",
                                                          ![q].repos = repos]
                          /\ tasks' = [tasks EXCEPT ![q].pc = "backup"]
                     ELSE /\ requests' = [requests EXCEPT ![q].pc = "responded",
                                                          ![q].repos = repos,
                                                          ![q].response = 500]
                          /\ tasks' = tasks
  /\ UNCHANGED <<repoStatus, repoErrorMessage, syncLock, scheduled,
                 mirrorJobs, backups, syncCalls>>

\* Lines 78-85: the update of one row to synced; a rejected update leaves
\* the loop through the outer catch.
DismissUpdate_KeepsMessage(q) ==
  /\ requests[q].pc = "dismissUpdate"
  /\ LET repo == requests[q].repos[requests[q].next]
     IN \E updated \in BOOLEAN :
          IF updated
            THEN /\ repoStatus' = [repoStatus EXCEPT ![repo] = "synced"]
                 /\ repoErrorMessage' = repoErrorMessage
                 /\ requests' = [requests EXCEPT ![q].pc = "dismissJob"]
            ELSE /\ Respond(q, 500)
                 /\ UNCHANGED <<repoStatus, repoErrorMessage>>
  /\ UNCHANGED <<syncLock, scheduled, tasks, mirrorJobs, backups, syncCalls>>
DismissUpdate(q) ==
  /\ requests[q].pc = "dismissUpdate"
  /\ LET repo == requests[q].repos[requests[q].next]
     IN \E updated \in BOOLEAN :
          IF updated
            THEN /\ repoStatus' = [repoStatus EXCEPT ![repo] = "synced"]
                 /\ repoErrorMessage' = [repoErrorMessage EXCEPT ![repo] = Null]
                 /\ requests' = [requests EXCEPT ![q].pc = "dismissJob"]
            ELSE /\ Respond(q, 500)
                 /\ UNCHANGED <<repoStatus, repoErrorMessage>>
  /\ UNCHANGED <<syncLock, scheduled, tasks, mirrorJobs, backups, syncCalls>>

\* Lines 87-95 and 97-108: createMirrorJob for the dismissed row, then the
\* next row or the response.
DismissJob(q) ==
  /\ requests[q].pc = "dismissJob"
  /\ LET repo == requests[q].repos[requests[q].next]
     IN \E recorded \in BOOLEAN :
          IF recorded
            THEN /\ mirrorJobs' = mirrorJobs (+)
                      SetToBag({[repositoryId |-> repo, message |-> "dismissed",
                        status |-> "synced", by |-> q]})
                 /\ requests' =
                      IF requests[q].next = Len(requests[q].repos)
                        THEN [requests EXCEPT ![q].pc = "responded",
                                              ![q].response = 200]
                        ELSE [requests EXCEPT ![q].pc = "dismissUpdate",
                                              ![q].next = @ + 1]
            ELSE /\ Respond(q, 500)
                 /\ mirrorJobs' = mirrorJobs
  /\ UNCHANGED <<repoStatus, repoErrorMessage, syncLock, scheduled, tasks,
                 backups, syncCalls>>

\* Lines 175-198: the update of one row to syncing, then the next row or the
\* response.
ApproveUpdate_MarksSynced(q) ==
  /\ requests[q].pc = "approveUpdate"
  /\ LET repo == requests[q].repos[requests[q].next]
     IN \E updated \in BOOLEAN :
          IF updated
            THEN /\ repoStatus' = [repoStatus EXCEPT ![repo] = "synced"]
                 /\ repoErrorMessage' = [repoErrorMessage EXCEPT ![repo] = Null]
                 /\ requests' =
                      IF requests[q].next = Len(requests[q].repos)
                        THEN [requests EXCEPT ![q].pc = "responded",
                                              ![q].response = 200]
                        ELSE [requests EXCEPT ![q].next = @ + 1]
            ELSE /\ Respond(q, 500)
                 /\ UNCHANGED <<repoStatus, repoErrorMessage>>
  /\ UNCHANGED <<syncLock, scheduled, tasks, mirrorJobs, backups, syncCalls>>
ApproveUpdate(q) ==
  /\ requests[q].pc = "approveUpdate"
  /\ LET repo == requests[q].repos[requests[q].next]
     IN \E updated \in BOOLEAN :
          IF updated
            THEN /\ repoStatus' = [repoStatus EXCEPT ![repo] = "syncing"]
                 /\ repoErrorMessage' = [repoErrorMessage EXCEPT ![repo] = Null]
                 /\ requests' =
                      IF requests[q].next = Len(requests[q].repos)
                        THEN [requests EXCEPT ![q].pc = "responded",
                                              ![q].response = 200]
                        ELSE [requests EXCEPT ![q].next = @ + 1]
            ELSE /\ Respond(q, 500)
                 /\ UNCHANGED <<repoStatus, repoErrorMessage>>
  /\ UNCHANGED <<syncLock, scheduled, tasks, mirrorJobs, backups, syncCalls>>

\* The background task moves to the next row, or ends.
TaskAdvance(q) ==
  IF tasks[q].next = Len(requests[q].repos)
    THEN [tasks EXCEPT ![q].pc = "done"]
    ELSE [tasks EXCEPT ![q].pc = "backup", ![q].next = @ + 1]

\* Lines 117-143: the owner lookup, the forced snapshot and its activity
\* entry. A failed lookup leaves the row through the outer catch; a failed
\* snapshot or entry is logged by the inner catch and the row goes on.
TaskBackup_SyncOnlyAfterSnapshot(q) ==
  /\ tasks[q].pc = "backup"
  /\ LET repo == requests[q].repos[tasks[q].next]
     IN \E owner \in BOOLEAN :
          IF ~owner
            THEN /\ tasks' = TaskAdvance(q)
                 /\ UNCHANGED <<backups, mirrorJobs>>
            ELSE \E created \in BOOLEAN :
                   /\ backups' = backups \cup
                        {[repositoryId |-> repo, force |-> TRUE,
                          created |-> created, by |-> q]}
                   /\ IF created
                        THEN /\ tasks' = [tasks EXCEPT ![q].pc = "sync"]
                             /\ \E recorded \in BOOLEAN :
                                  mirrorJobs' =
                                    IF recorded
                                      THEN mirrorJobs (+)
                                             SetToBag({[repositoryId |-> repo,
                                               message |-> "snapshot",
                                               status |-> "syncing", by |-> q]})
                                      ELSE mirrorJobs
                        ELSE /\ tasks' = TaskAdvance(q)
                             /\ mirrorJobs' = mirrorJobs
  /\ UNCHANGED <<repoStatus, repoErrorMessage, syncLock, scheduled, requests,
                 syncCalls>>
TaskBackup(q) ==
  /\ tasks[q].pc = "backup"
  /\ LET repo == requests[q].repos[tasks[q].next]
     IN \E owner \in BOOLEAN :
          IF ~owner
            THEN /\ tasks' = TaskAdvance(q)
                 /\ UNCHANGED <<backups, mirrorJobs>>
            ELSE \E created \in BOOLEAN :
                   /\ backups' = backups \cup
                        {[repositoryId |-> repo, force |-> TRUE,
                          created |-> created, by |-> q]}
                   /\ tasks' = [tasks EXCEPT ![q].pc = "sync"]
                   /\ IF created
                        THEN \E recorded \in BOOLEAN :
                               mirrorJobs' =
                                 IF recorded
                                   THEN mirrorJobs (+)
                                          SetToBag({[repositoryId |-> repo,
                                            message |-> "snapshot",
                                            status |-> "syncing", by |-> q]})
                                   ELSE mirrorJobs
                        ELSE mirrorJobs' = mirrorJobs
  /\ UNCHANGED <<repoStatus, repoErrorMessage, syncLock, scheduled, requests,
                 syncCalls>>

\* Lines 146-165: syncGiteaRepoEnhanced is called with
\* skipForcePushDetection; the sync marks the row syncing. At most one sync
\* of a repository is active.
TaskSync(q) ==
  /\ tasks[q].pc = "sync"
  /\ LET repo == requests[q].repos[tasks[q].next]
     IN /\ syncLock[repo] = "free"
        /\ syncLock' = [syncLock EXCEPT ![repo] = "approve"]
        /\ syncCalls' = syncCalls \cup
             {[repositoryId |-> repo, skipForcePushDetection |-> TRUE, by |-> q]}
        /\ repoStatus' = [repoStatus EXCEPT ![repo] = "syncing"]
  /\ tasks' = [tasks EXCEPT ![q].pc = "syncing"]
  /\ UNCHANGED <<repoErrorMessage, scheduled, requests, mirrorJobs, backups>>

\* Lines 160-171: the sync called by the task ends, by returning or by an
\* exception the outer catch logs; the task goes to the next row.
TaskSyncEnd(q) ==
  /\ tasks[q].pc = "syncing"
  /\ LET repo == requests[q].repos[tasks[q].next]
     IN \E status \in SyncFinalStatuses(TRUE) :
          /\ repoStatus' = [repoStatus EXCEPT ![repo] = status]
          /\ repoErrorMessage' =
               [repoErrorMessage EXCEPT ![repo] = SyncErrorMessage(status)]
          /\ syncLock' = [syncLock EXCEPT ![repo] = "free"]
  /\ tasks' = TaskAdvance(q)
  /\ UNCHANGED <<scheduled, requests, mirrorJobs, backups, syncCalls>>

\* The schedule starts a sync of a repository it picks.
ScheduledSync(r) ==
  /\ scheduled < MaxScheduledSyncs
  /\ SchedulePicks(repoStatus[r])
  /\ syncLock[r] = "free"
  /\ scheduled' = scheduled + 1
  /\ syncLock' = [syncLock EXCEPT ![r] = "schedule"]
  /\ syncCalls' = syncCalls \cup
       {[repositoryId |-> r, skipForcePushDetection |-> FALSE, by |-> 0]}
  /\ repoStatus' = [repoStatus EXCEPT ![r] = "syncing"]
  /\ UNCHANGED <<repoErrorMessage, requests, tasks, mirrorJobs, backups>>

\* The scheduled sync ends: synced, error, or held for approval.
ScheduledSyncEnd(r) ==
  /\ syncLock[r] = "schedule"
  /\ \E status \in SyncFinalStatuses(FALSE) :
       /\ repoStatus' = [repoStatus EXCEPT ![r] = status]
       /\ repoErrorMessage' = [repoErrorMessage EXCEPT ![r] = SyncErrorMessage(status)]
  /\ syncLock' = [syncLock EXCEPT ![r] = "free"]
  /\ UNCHANGED <<scheduled, requests, tasks, mirrorJobs, backups, syncCalls>>

NextApprove ==
  /\ \/ \E q \in RequestIds :
          \/ ReceiveRequest(q)
          \/ SelectRepos(q)
          \/ DismissUpdate(q)
          \/ DismissJob(q)
          \/ ApproveUpdate(q)
          \/ TaskBackup(q)
          \/ TaskSync(q)
          \/ TaskSyncEnd(q)
     \/ \E r \in Repos : ScheduledSync(r) \/ ScheduledSyncEnd(r)
  /\ UNCHANGED <<detectVars, strategyVars, syncVars, orchestratorVars, fetchVars>>

SpecApprove == InitApprove /\ [][NextApprove]_vars

\* Two requests that name the same repository, received and validated while
\* it is pending-approval: an approve, and an approve or a dismiss.
RaceIds == {1, 2}

InitApproveRace ==
  /\ OrchestratorIdle
  /\ FetchIdle
  /\ DetectIdle
  /\ StrategyIdle
  /\ SyncIdle
  /\ repoStatus = [r \in Repos |-> IF r = "r1" THEN "pending-approval" ELSE "synced"]
  /\ repoErrorMessage = [r \in Repos |-> SyncErrorMessage(repoStatus[r])]
  /\ syncLock = [r \in Repos |-> "free"]
  /\ scheduled = 0
  /\ \E second \in {"approve", "dismiss"} :
       requests =
         [q \in RaceIds |->
            [NewRequest EXCEPT !.pc = "select", !.userId = "alice",
                               !.repositoryIds = {"r1"},
                               !.action = IF q = 1 THEN "approve" ELSE second]]
  /\ tasks = [q \in RaceIds |-> NoTask]
  /\ mirrorJobs = EmptyBag
  /\ backups = {}
  /\ syncCalls = {}

NextApproveRace ==
  /\ \E q \in RaceIds :
       \/ SelectRepos(q)
       \/ DismissUpdate(q)
       \/ DismissJob(q)
       \/ ApproveUpdate(q)
       \/ TaskBackup(q)
       \/ TaskSync(q)
       \/ TaskSyncEnd(q)
  /\ UNCHANGED <<scheduled, detectVars, strategyVars, syncVars, orchestratorVars, fetchVars>>

SpecApproveRace == InitApproveRace /\ [][NextApproveRace]_vars

\* ------------------------------------------------ backup orchestrator as steps

\* resolveBackupPaths is called with an owner and a repository name.
InitPaths ==
  /\ FetchIdle
  /\ DetectIdle
  /\ StrategyIdle
  /\ SyncIdle
  /\ ApproveIdle
  /\ BackupIdle
  /\ pathPc = "call"
  /\ pathArgs \in [owner : PathNames, repoName : PathNames]
  /\ pathResult = NoPaths

ResolvePaths ==
  /\ pathPc = "call"
  /\ pathResult' = resolveBackupPaths(pathArgs.owner, pathArgs.repoName)
  /\ pathPc' = "done"
  /\ UNCHANGED pathArgs

NextPaths ==
  /\ ResolvePaths
  /\ UNCHANGED <<detectVars, strategyVars, syncVars, approveVars, backupVars, fetchVars>>

SpecPaths == InitPaths /\ [][NextPaths]_vars

\* The backup directory of a repository is empty; the retention count is
\* not set.
InitBackup ==
  /\ FetchIdle
  /\ DetectIdle
  /\ StrategyIdle
  /\ SyncIdle
  /\ ApproveIdle
  /\ PathIdle
  /\ backupPc = "ready"
  /\ backupConfig \in [backupStrategy : Strategies, backupRetentionCount : {{}}]
  /\ snapshots = {}
  /\ snapshotsCreated = 0
  /\ lastCall = NoCall

\* onChange of the retention input, shown unless the strategy is disabled.
ChangeRetention ==
  /\ backupPc = "ready"
  /\ backupConfig.backupStrategy # "disabled"
  /\ \E value \in RetentionInputs :
       backupConfig' =
         [backupConfig EXCEPT !.backupRetentionCount =
            {backupRetentionCountFromInput(value)}]
  /\ UNCHANGED <<snapshots, snapshotsCreated, lastCall>>

\* createPreSyncBundleBackup: the gate, the bundle, the retention pruning.
CreatePreSyncBundleBackup ==
  /\ backupPc = "ready"
  /\ snapshotsCreated < MaxSnapshots
  /\ \E detected \in BOOLEAN, force \in BOOLEAN, bundled \in BOOLEAN :
       LET attempted == backupAttempted(backupConfig.backupStrategy, detected, force)
           created == attempted /\ bundled
       IN /\ lastCall' =
               [made |-> TRUE, detected |-> detected, force |-> force,
                attempted |-> attempted, created |-> created]
          /\ IF created
               THEN /\ snapshotsCreated' = snapshotsCreated + 1
                    /\ snapshots' =
                         pruneSnapshots(
                           snapshots \cup {Snapshot(snapshotsCreated + 1)},
                           retentionCount(backupConfig.backupRetentionCount))
               ELSE UNCHANGED <<snapshots, snapshotsCreated>>
  /\ UNCHANGED backupConfig

NextBackup ==
  /\ ChangeRetention \/ CreatePreSyncBundleBackup
  /\ UNCHANGED <<backupPc, detectVars, strategyVars, syncVars, approveVars, pathVars, fetchVars>>

SpecBackup == InitBackup /\ [][NextBackup]_vars

\* ------------------------------------------------ fetchGiteaBranches as steps

InitFetch ==
  /\ DetectIdle
  /\ StrategyIdle
  /\ SyncIdle
  /\ ApproveIdle
  /\ OrchestratorIdle
  /\ fetchPc = "request"
  /\ hostBranchCount \in 0..MaxRepoBranches
  /\ page = 1
  /\ fetchedBranches = <<>>
  /\ httpCalls = <<>>

\* One turn of the while loop, lines 74-89: the request of a page and what
\* the loop does with the response. An exception of httpGet leaves the
\* function.
FetchPage_ContinuesAfterShortPage ==
  /\ fetchPc = "request"
  /\ \E outcome \in HttpOutcomes :
       LET data == HostPage(hostBranchCount, page, perPage)
           served == IF outcome = "array" THEN Len(data) ELSE -1
       IN /\ httpCalls' = Append(httpCalls,
               [page |-> page, limit |-> perPage, outcome |-> outcome,
                length |-> served])
          /\ CASE outcome = "throw" ->
                    /\ fetchPc' = "failed"
                    /\ UNCHANGED <<page, fetchedBranches>>
               [] outcome = "not-array" \/ (outcome = "array" /\ Len(data) = 0) ->
                    /\ fetchPc' = "returned"
                    /\ UNCHANGED <<page, fetchedBranches>>
               [] OTHER ->
                    /\ fetchedBranches' = PushPage(fetchedBranches, data)
                    /\ fetchPc' = "request"
                    /\ page' = page + 1
  /\ UNCHANGED hostBranchCount
FetchPage ==
  /\ fetchPc = "request"
  /\ \E outcome \in HttpOutcomes :
       LET data == HostPage(hostBranchCount, page, perPage)
           served == IF outcome = "array" THEN Len(data) ELSE -1
       IN /\ httpCalls' = Append(httpCalls,
               [page |-> page, limit |-> perPage, outcome |-> outcome,
                length |-> served])
          /\ CASE outcome = "throw" ->
                    /\ fetchPc' = "failed"
                    /\ UNCHANGED <<page, fetchedBranches>>
               [] outcome = "not-array" \/ (outcome = "array" /\ Len(data) = 0) ->
                    /\ fetchPc' = "returned"
                    /\ UNCHANGED <<page, fetchedBranches>>
               [] OTHER ->
                    /\ fetchedBranches' = PushPage(fetchedBranches, data)
                    /\ IF Len(data) < perPage
                         THEN fetchPc' = "returned" /\ page' = page
                         ELSE fetchPc' = "request" /\ page' = page + 1
  /\ UNCHANGED hostBranchCount

NextFetch ==
  /\ FetchPage
  /\ UNCHANGED <<detectVars, strategyVars, syncVars, approveVars, orchestratorVars>>

SpecFetch == InitFetch /\ [][NextFetch]_vars

\* Every request is answered or fails.
SpecFetchFair == SpecFetch /\ WF_vars(NextFetch)

\* -------------------------------------------------------------- properties

Done == pc = "done"
Names(branches) == {branches[i].name : i \in 1..Len(branches)}
Findings == {result.affectedBranches[i] : i \in 1..Len(result.affectedBranches)}
FindingsOf(name) == {i \in 1..Len(result.affectedBranches) : result.affectedBranches[i].name = name}
CallsOf(name) == {i \in 1..Len(ancestryCalls) : ancestryCalls[i].name = name}
Calls == {ancestryCalls[i] : i \in 1..Len(ancestryCalls)}
GiteaFetchFailed == giteaFetch \in {Rejected(e) : e \in FetchErrors}
GitHubFetchFailed == githubFetch \in {Rejected(e) : e \in FetchErrors}
\* The names whose ancestry check threw in this run.
ThrownNames == {c.name : c \in {d \in Calls : d.outcome.kind = "throw"}}
\* How the ancestry check of each branch name ended in this run.
AncestryAnswers ==
  [n \in BranchNames |->
     IF CallsOf(n) = {} THEN NotCalled
     ELSE ancestryCalls[CHOOSE i \in CallsOf(n) : TRUE].outcome]

\* C1: every result detectForcePush returns satisfies: skipped implies not
\* detected and no affected branches; detected iff affectedBranches is
\* non-empty.
C1_ResultInvariants ==
  Done =>
    /\ result.skipped => (~result.detected /\ result.affectedBranches = <<>>)
    /\ result.detected <=> Len(result.affectedBranches) > 0

C1_Witness ==
  /\ Done
  /\ result.detected
  /\ Len(result.affectedBranches) = 2
  /\ ~result.skipped

\* C2: when the fetch of either host's branch list fails, the run ends at once
\* with skipped = true, detected = false, no affected branches, no ancestry
\* check and a non-empty skipReason; a 404 of the mirror gives the reason
\* "Gitea repository not found (first mirror?)".
C2_FetchFailureSkips ==
  (GiteaFetchFailed \/ GitHubFetchFailed) =>
    /\ Done
    /\ result.skipped
    /\ ~result.detected
    /\ result.affectedBranches = <<>>
    /\ ancestryCalls = <<>>
    /\ result.skipReason \notin {"", Undefined}
    /\ GiteaFetchFailed => githubFetch = Pending
    /\ (giteaFetch.error.cls = "HttpError" /\ giteaFetch.error.status = 404)
         => result.skipReason = "Gitea repository not found (first mirror?)"
    /\ (GiteaFetchFailed /\ ~(giteaFetch.error.cls = "HttpError" /\ giteaFetch.error.status = 404))
         => result.skipReason =
              "Failed to fetch Gitea branches: " \o ErrorMessage(giteaFetch.error)
    /\ GitHubFetchFailed
         => result.skipReason =
              "Failed to fetch GitHub branches: " \o ErrorMessage(githubFetch.error)

C2_Witness ==
  /\ Done
  /\ giteaFetch = Rejected(Err("HttpError", 404, "not found"))
  /\ result.skipped

\* C3: when the ancestry check of a mirror branch throws, that branch alone is
\* left out: the run is not skipped, the branch is not among the findings, and
\* the findings are those of the same run over the mirror list without the
\* branches whose check threw.
C3_BranchFailOpen ==
  (Done /\ ThrownNames # {}) =>
    /\ ~result.skipped
    /\ \A n \in ThrownNames : FindingsOf(n) = {}
    /\ result.affectedBranches =
         RunLoop(<<>>,
                 SelectSeq(giteaBranches, LAMBDA b : b.name \notin ThrownNames),
                 githubBranches, AncestryAnswers)

C3_Witness ==
  /\ Done
  /\ ThrownNames # {}
  /\ result.detected
  /\ \E c \in Calls : c.outcome.kind = "return" /\ ~c.outcome.value

\* C4: detectForcePush never rejects: whatever the fetches and the ancestry
\* checks throw, the run goes on until it has returned a result.
C4_NeverThrows ==
  /\ pc # "rejected"
  /\ escaped = NoError
  /\ ~Done => ENABLED Next
  /\ Done => result # NoResult

C4_Witness ==
  /\ Done
  /\ Cardinality(ThrownNames) = 2
  /\ ~result.skipped

\* C5: in a run that is not skipped, every mirror branch whose name the source
\* lacks has exactly one finding, {name, deleted, giteaSha: mirror sha,
\* githubSha: null}; and a finding has githubSha null iff its reason is deleted.
C5_DeletedFindings ==
  (Done /\ ~result.skipped) =>
    /\ \A i \in 1..Len(giteaBranches) :
         githubBranchMap(githubBranches, giteaBranches[i].name) = Undefined =>
           /\ Cardinality(FindingsOf(giteaBranches[i].name)) = 1
           /\ [name |-> giteaBranches[i].name, reason |-> "deleted",
               giteaSha |-> giteaBranches[i].sha, githubSha |-> Null] \in Findings
    /\ \A f \in Findings : (f.githubSha = Null) <=> (f.reason = "deleted")
    /\ \A f \in Findings : f.reason = "diverged" => f.githubSha \in Shas

C5_Witness ==
  /\ Done
  /\ \E f \in Findings : f.reason = "deleted"
  /\ \E f \in Findings : f.reason = "diverged"

\* C6: a mirror branch that the source has with the same commit id gets no
\* finding and no ancestry check; when every mirror branch matches, the result
\* is detected = false, skipped = false, affectedBranches = [].
C6_SameShaNoFinding ==
  (Done /\ ~result.skipped) =>
    /\ \A i \in 1..Len(giteaBranches) :
         githubBranchMap(githubBranches, giteaBranches[i].name) = giteaBranches[i].sha =>
           /\ FindingsOf(giteaBranches[i].name) = {}
           /\ CallsOf(giteaBranches[i].name) = {}
    /\ (\A i \in 1..Len(giteaBranches) :
          githubBranchMap(githubBranches, giteaBranches[i].name) = giteaBranches[i].sha)
         => /\ ~result.detected
            /\ ~result.skipped
            /\ result.affectedBranches = <<>>
            /\ ancestryCalls = <<>>

C6_Witness ==
  /\ Done
  /\ ~result.skipped
  /\ Len(giteaBranches) = 2
  /\ \A i \in 1..Len(giteaBranches) :
       githubBranchMap(githubBranches, giteaBranches[i].name) = giteaBranches[i].sha

\* C7: a mirror branch that the source has with another commit id gets no
\* finding when the ancestry check answers fast-forward, and exactly the
\* finding {name, diverged, giteaSha: mirror sha, githubSha: source sha} when
\* it answers not fast-forward, which includes a compare that failed with 404.
C7_DifferingSha ==
  (Done /\ ~result.skipped) =>
    \A i \in 1..Len(giteaBranches) :
      LET b == giteaBranches[i]
          sha == githubBranchMap(githubBranches, b.name)
      IN (sha # Undefined /\ sha # b.sha) =>
           /\ Cardinality(CallsOf(b.name)) = 1
           /\ \A k \in CallsOf(b.name) :
                LET c == ancestryCalls[k]
                    diverged == [name |-> b.name, reason |-> "diverged",
                                 giteaSha |-> b.sha, githubSha |-> sha]
                IN /\ c.baseSha = b.sha /\ c.headSha = sha
                   /\ c.outcome = Return(TRUE) => FindingsOf(b.name) = {}
                   /\ (c.outcome = Return(FALSE)
                        \/ (~c.compare.ok /\ c.compare.error.status = 404))
                        => /\ Cardinality(FindingsOf(b.name)) = 1
                           /\ diverged \in Findings

C7_Witness ==
  /\ Done
  /\ \E c \in Calls : ~c.compare.ok /\ c.compare.error.status = 404
  /\ \E c \in Calls : c.outcome = Return(TRUE)
  /\ Len(result.affectedBranches) = 1

\* C8: checkAncestry returns true exactly for the compare statuses "ahead" and
\* "identical", and false for every other status.
C8_StatusToAnswer ==
  \A c \in Calls :
    c.compare.ok =>
      /\ c.outcome.kind = "return"
      /\ c.outcome.value <=> c.compare.status \in {"ahead", "identical"}

C8_Witness ==
  /\ \E c \in Calls : c.compare.ok /\ c.compare.status = "identical" /\ c.outcome = Return(TRUE)
  /\ \E c \in Calls : c.compare.ok /\ c.compare.status = "behind" /\ c.outcome = Return(FALSE)

\* C9: when the compare call fails, checkAncestry returns false iff the
\* failure's status is 404 or 422; every other failure is rethrown unchanged.
C9_ErrorToAnswer ==
  \A c \in Calls :
    ~c.compare.ok =>
      /\ c.outcome.kind = "return" <=> c.compare.error.status \in {404, 422}
      /\ c.outcome.kind = "return" => c.outcome = Return(FALSE)
      /\ c.outcome.kind # "return" => c.outcome = Throw(c.compare.error)

C9_Witness ==
  /\ \E c \in Calls : ~c.compare.ok /\ c.compare.error.status = 422 /\ c.outcome = Return(FALSE)
  /\ \E c \in Calls : ~c.compare.ok /\ c.compare.error.status = 0 /\ c.outcome.kind = "throw"

\* C10: branches that only the source has are never reported and never
\* checked, and the result is the one the run gives with the source-only
\* branches removed, or with one more source-only branch added.
C10_SourceOnlyIgnored ==
  (Done /\ ~result.skipped) =>
    /\ \A n \in Names(githubBranches) \ Names(giteaBranches) :
         FindingsOf(n) = {} /\ CallsOf(n) = {}
    /\ \A f \in Findings : f.name \in Names(giteaBranches)
    /\ \A c \in Calls : c.name \in Names(giteaBranches)
    /\ result =
         BuildResult(
           RunLoop(<<>>, giteaBranches,
                   SelectSeq(githubBranches, LAMBDA b : b.name \in Names(giteaBranches)),
                   AncestryAnswers))
    /\ \A extra \in BranchInfo :
         extra.name \notin (Names(giteaBranches) \cup Names(githubBranches)) =>
           /\ result = BuildResult(RunLoop(<<>>, giteaBranches,
                                           Append(githubBranches, extra), AncestryAnswers))
           /\ result = BuildResult(RunLoop(<<>>, giteaBranches,
                                           <<extra>> \o githubBranches, AncestryAnswers))

C10_Witness ==
  /\ Done
  /\ result.detected
  /\ Names(githubBranches) \ Names(giteaBranches) # {}
  /\ ancestryCalls # <<>>

\* C32: every ancestry check of a run is for a mirror branch that the source
\* has with another commit id, with the mirror's commit id as base and the
\* source's as head; no mirror branch is checked twice, so there are at most
\* as many checks as mirror branches (as many as the loop has visited); and
\* the run ends.
C32_AncestryCalls ==
  /\ [](/\ \A i \in 1..Len(ancestryCalls) :
             \E j \in 1..Len(giteaBranches) :
               /\ j < idx
               /\ giteaBranches[j].name = ancestryCalls[i].name
               /\ ancestryCalls[i].baseSha = giteaBranches[j].sha
               /\ ancestryCalls[i].headSha =
                    githubBranchMap(githubBranches, giteaBranches[j].name)
               /\ ancestryCalls[i].headSha # Undefined
               /\ ancestryCalls[i].headSha # ancestryCalls[i].baseSha
        /\ \A i, k \in 1..Len(ancestryCalls) :
             i # k => ancestryCalls[i].name # ancestryCalls[k].name
        /\ Len(ancestryCalls) <= Len(giteaBranches))
  /\ <>Done

\* Both mirror branches were checked in a run that ended.
C32_Witness ==
  /\ Done
  /\ Len(giteaBranches) = 2
  /\ Len(ancestryCalls) = 2
  /\ ancestryCalls[1].name # ancestryCalls[2].name

\* The orders a branch list can come in.
Reorderings(list) ==
  {[i \in 1..Len(list) |-> list[p[i]]] : p \in Permutations(1..Len(list))}

SeqToSet(list) == {list[i] : i \in 1..Len(list)}

\* C33: the findings of a run do not depend on the order of the snapshots.
\* For every order of the mirror list and every order of the source list,
\* the comparison loop, given for each branch the answer its ancestry check
\* got in this run, reports the same set of affected branches, each once,
\* and the same detected flag.
C33_OrderIndependent ==
  Done /\ ~result.skipped =>
    \A gitea \in Reorderings(giteaBranches), github \in Reorderings(githubBranches) :
      LET reordered == BuildResult(RunLoop(<<>>, gitea, github, AncestryAnswers))
      IN /\ SeqToSet(reordered.affectedBranches) = Findings
         /\ Len(reordered.affectedBranches) = Cardinality(Findings)
         /\ reordered.detected = result.detected

\* A run over two mirror branches and two source branches in which the
\* second mirror branch was rewritten and the first deleted on the source,
\* the source listing its branches in another order.
C33_Witness ==
  /\ Done
  /\ Len(giteaBranches) = 2
  /\ Len(githubBranches) = 2
  /\ Cardinality(Findings) = 2
  /\ result.affectedBranches[1].reason = "deleted"
  /\ result.affectedBranches[2].reason = "diverged"
  /\ githubBranches[1].name = giteaBranches[2].name

\* The mirror fetch ended without a branch: it failed, or the list is empty.
NoMirrorBranches == giteaFetch # Pending /\ (~giteaFetch.ok \/ giteaFetch.value = <<>>)

\* C34: when the mirror fetch fails or returns an empty list the run has
\* ended skipped, with the reason of the first mirror or of the failure, and
\* the source was never contacted; the source fetch and the ancestry check
\* happen only in steps taken with a non-empty mirror list at hand.
C34_MirrorFirst ==
  /\ [](NoMirrorBranches =>
          /\ Done
          /\ result.skipped /\ ~result.detected
          /\ githubFetch = Pending
          /\ ancestryCalls = <<>>
          /\ (giteaFetch.ok =>
                result.skipReason = "No Gitea branches found (first mirror?)")
          /\ (~giteaFetch.ok =>
                result.skipReason \in
                  {"Gitea repository not found (first mirror?)",
                   "Failed to fetch Gitea branches: " \o ErrorMessage(giteaFetch.error)}))
  /\ [][githubFetch' # githubFetch \/ ancestryCalls' # ancestryCalls =>
          giteaFetch.ok /\ Len(giteaBranches) > 0 /\ giteaBranches = giteaFetch.value]_vars

\* The mirror answered with an empty list and the run ended skipped.
C34_Witness ==
  /\ Done
  /\ giteaFetch = Fulfilled(<<>>)
  /\ result.skipped
  /\ githubFetch = Pending

\* type ForcePushReason
ForcePushReasons == {"deleted", "diverged", "non-fast-forward"}

\* C35: at every point of a run, every finding collected or returned has a
\* reason of the type, never non-fast-forward, and is about a branch of the
\* mirror snapshot whose commit id it carries as giteaSha.
C35_NoNonFastForward ==
  \A f \in Findings \cup SeqToSet(affected) :
    /\ f.reason \in ForcePushReasons
    /\ f.reason # "non-fast-forward"
    /\ f.reason \in {"deleted", "diverged"}
    /\ \E j \in 1..Len(giteaBranches) :
         /\ giteaBranches[j].name = f.name
         /\ giteaBranches[j].sha = f.giteaSha

\* A run returned a diverged and a deleted finding.
C35_Witness ==
  /\ Done
  /\ \E f \in Findings : f.reason = "diverged"
  /\ \E f \in Findings : f.reason = "deleted"

\* ---------------------------------------------- properties of the branch fetch

FetchEnded == fetchPc \in {"returned", "failed"}

\* Every branch the repository holds, once, in the order of the host.
AllHostBranches(count) ==
  [i \in 1..count |-> [name |-> HostBranch(i).name, sha |-> HostBranch(i).commit.id]]

\* C31: the requests are for the pages 1, 2, ... with limit 50, each page
\* once; every page before the last one requested was a full array of 50, so
\* no page is requested after an empty, short or non-array one or after a
\* failed request; a failed request fails the fetch; a fetch that returns
\* having been served arrays only returns every branch of the repository
\* once in page order, and one cut short by a body that is not an array
\* returns the full pages before it; and every fetch ends.
C31_Pagination ==
  /\ [](/\ \A i \in 1..Len(httpCalls) :
             /\ httpCalls[i].page = i
             /\ httpCalls[i].limit = 50
             /\ i < Len(httpCalls) =>
                  httpCalls[i].outcome = "array" /\ httpCalls[i].length = 50
        /\ fetchPc = "request" => page = Len(httpCalls) + 1
        /\ fetchPc = "failed" <=>
             Len(httpCalls) > 0 /\ httpCalls[Len(httpCalls)].outcome = "throw"
        /\ fetchPc = "returned" =>
             /\ httpCalls[Len(httpCalls)].outcome \in {"array", "not-array"}
             /\ httpCalls[Len(httpCalls)].length < 50
             /\ httpCalls[Len(httpCalls)].outcome = "array" =>
                  fetchedBranches = AllHostBranches(hostBranchCount)
             /\ httpCalls[Len(httpCalls)].outcome = "not-array" =>
                  fetchedBranches = AllHostBranches(50 * (Len(httpCalls) - 1)))
  /\ [][FetchEnded => UNCHANGED fetchVars]_vars
  /\ <>FetchEnded

\* A repository of 101 branches was fetched in three requests.
C31_Witness ==
  /\ fetchPc = "returned"
  /\ hostBranchCount = 101
  /\ Len(httpCalls) = 3
  /\ httpCalls[3].length = 1
  /\ Len(fetchedBranches) = 101

\* --------------------------------------------- properties of a sync attempt

SyncDone == syncPc = "done"

\* Detection ran and produced nothing but its own failure: it was skipped, or
\* every branch whose sha differs had its ancestry check throw, with no
\* mirror branch missing on the source.
DetectionFailed(run) ==
  /\ run.ran
  /\ \/ run.result.skipped
     \/ run.failed > 0 /\ run.answered = 0 /\ run.deleted = 0

StoppedByBackupFailure ==
  /\ syncBackup = "failed"
  /\ shouldBlockSyncOnBackupFailure(
       syncOptions.strategy, syncOptions.blockSyncOnBackupFailure)

HeldForApproval ==
  syncOptions.strategy = "block-on-force-push" /\ syncRun.result.detected

\* C17 as stated: a finished attempt under block-on-force-push with a
\* detection left the repository pending-approval without a mirror-sync, and
\* every other finished attempt performed the mirror-sync.
C17_Original ==
  SyncDone =>
    IF HeldForApproval
      THEN syncStatus = "pending-approval" /\ ~syncPushed
      ELSE syncPushed

\* C17 (amended): a finished attempt under block-on-force-push with a
\* detection left the repository pending-approval without a mirror-sync and
\* without a snapshot; every other finished attempt performed the
\* mirror-sync and is never pending-approval, except the attempts stopped by
\* a failed snapshot under blockSyncOnBackupFailure with the strategy always
\* or on-force-push, which end in error without a mirror-sync. No attempt
\* performs the mirror-sync before the decision.
C17_BlockOrProceed ==
  /\ SyncDone =>
       IF HeldForApproval
         THEN /\ syncStatus = "pending-approval"
              /\ ~syncPushed
              /\ syncBackup = "none"
              /\ "blocked" \in syncEvents
         ELSE /\ syncStatus \in {"synced", "error"}
              /\ syncPushed <=> ~StoppedByBackupFailure
              /\ StoppedByBackupFailure => syncStatus = "error"
  /\ syncPushed => SyncDone /\ ~HeldForApproval

C17_Witness ==
  /\ SyncDone
  /\ HeldForApproval
  /\ syncStatus = "pending-approval"
  /\ ~syncPushed

\* C29: a failed snapshot stops the sync exactly when blockSyncOnBackupFailure
\* is set and the strategy is always or on-force-push: the attempt then ends
\* in error without a mirror-sync. In every other case the failure is logged
\* and the attempt goes on to the mirror-sync. No step from the snapshot on
\* changes the detection result.
C29_BackupFailureBlocks ==
  /\ [](syncBackup = "failed" =>
          /\ "backup-failed" \in syncEvents
          /\ IF /\ syncOptions.blockSyncOnBackupFailure
                /\ syncOptions.strategy \in {"always", "on-force-push"}
               THEN syncPc = "done" /\ ~syncPushed /\ syncStatus = "error"
               ELSE syncPc = "mirror" \/ (syncPc = "done" /\ syncPushed))
  /\ [](syncPc = "done" /\ ~syncPushed /\ syncStatus = "error" =>
          /\ syncBackup = "failed"
          /\ syncOptions.blockSyncOnBackupFailure
          /\ syncOptions.strategy \in {"always", "on-force-push"})
  /\ [][(syncPc \in {"backup", "mirror", "done"}) => syncRun' = syncRun]_vars

\* A snapshot failed after a detection under on-force-push with
\* blockSyncOnBackupFailure set, and the sync was stopped.
C29_Witness ==
  /\ syncBackup = "failed"
  /\ syncOptions.blockSyncOnBackupFailure
  /\ syncOptions.strategy = "on-force-push"
  /\ syncRun.result.detected
  /\ syncPc = "done"
  /\ ~syncPushed

\* ------------------------------------- properties of the approval workflow

\* The row the handler of request q is at, and the row its task is at.
HandlerRepo(q) == requests[q].repos[requests[q].next]
TaskRepo(q) == requests[q].repos[tasks[q].next]

\* Request q takes the step.
StepOf(q) == requests'[q] # requests[q] \/ tasks'[q] # tasks[q]

DismissedEntry(q, repo) ==
  [repositoryId |-> repo, message |-> "dismissed", status |-> "synced", by |-> q]

\* C18: pending-approval lasts until a human acts. No sync of the schedule
\* starts or runs on a repository that is pending-approval, and every step
\* that takes a repository out of pending-approval is a step of an approve
\* request that leaves it syncing (the handler's update, or the start of the
\* sync it calls) or the update of a dismiss request that leaves it synced.
C18_PendingUntilHumanAction ==
  /\ [](\A r \in Repos :
          repoStatus[r] = "pending-approval" =>
            /\ syncLock[r] # "schedule"
            /\ ~SchedulePicks(repoStatus[r]))
  /\ [][\A r \in Repos :
          repoStatus[r] = "pending-approval" =>
            /\ syncLock'[r] # "schedule"
            /\ repoStatus'[r] # "pending-approval" =>
                 \E q \in RequestIds :
                   \/ /\ requests[q].action = "approve"
                      /\ ApproveUpdate(q) \/ TaskSync(q)
                      /\ repoStatus'[r] = "syncing"
                   \/ /\ requests[q].action = "dismiss"
                      /\ DismissUpdate(q)
                      /\ repoStatus'[r] = "synced"]_vars

C18_Witness ==
  \E q \in RequestIds, r \in Repos, other \in Repos :
    /\ requests[q].action = "approve"
    /\ requests[q].response = 200
    /\ requests[q].repos = <<r>>
    /\ repoStatus[r] = "syncing"
    /\ scheduled = MaxScheduledSyncs
    /\ \A c \in syncCalls : c.by = 0 /\ c.repositoryId = other /\ other # r

C20_DismissEffect ==
  /\ [](\A q \in RequestIds :
          requests[q].action = "dismiss" =>
            /\ tasks[q] = NoTask
            /\ \A b \in backups : b.by # q
            /\ \A c \in syncCalls : c.by # q
            /\ \A e \in BagToSet(mirrorJobs) :
                 e.by = q => e.message = "dismissed" /\ e.status = "synced"
            /\ requests[q].response = 200 => requests[q].next = Len(requests[q].repos)
            /\ \A i \in 1..Len(requests[q].repos) :
                 CopiesIn(DismissedEntry(q, requests[q].repos[i]), mirrorJobs) =
                   IF i < requests[q].next \/ requests[q].response = 200 THEN 1 ELSE 0)
  /\ [][\A q \in RequestIds :
          requests'[q].action = "dismiss" /\ StepOf(q) =>
            /\ backups' = backups
            /\ syncCalls' = syncCalls
            /\ syncLock' = syncLock
            /\ tasks' = tasks
            /\ requests[q].pc = "select" =>
                 /\ \A i \in 1..Len(requests'[q].repos) :
                      /\ repoStatus[requests'[q].repos[i]] = "pending-approval"
                      /\ requests'[q].repos[i] \in requests[q].repositoryIds
                 /\ UNCHANGED <<repoStatus, repoErrorMessage, mirrorJobs>>
            /\ requests[q].pc = "dismissUpdate" =>
                 /\ \A r \in Repos \ {HandlerRepo(q)} :
                      /\ repoStatus'[r] = repoStatus[r]
                      /\ repoErrorMessage'[r] = repoErrorMessage[r]
                 /\ mirrorJobs' = mirrorJobs
                 /\ IF requests'[q].pc = "dismissJob"
                      THEN /\ repoStatus'[HandlerRepo(q)] = "synced"
                           /\ repoErrorMessage'[HandlerRepo(q)] = Null
                           /\ SchedulePicks(repoStatus'[HandlerRepo(q)])
                      ELSE /\ requests'[q].response = 500
                           /\ UNCHANGED <<repoStatus, repoErrorMessage>>
            /\ requests[q].pc = "dismissJob" =>
                 UNCHANGED <<repoStatus, repoErrorMessage>>]_vars

C20_Witness ==
  \E q \in RequestIds :
    /\ requests[q].action = "dismiss"
    /\ requests[q].response = 200
    /\ Len(requests[q].repos) = 2
    /\ \A i \in 1..2 :
         /\ repoStatus[requests[q].repos[i]] = "synced"
         /\ repoErrorMessage[requests[q].repos[i]] = Null
         /\ CopiesIn(DismissedEntry(q, requests[q].repos[i]), mirrorJobs) = 1
    /\ backups = {}
    /\ syncCalls = {}

\* The handler of request q writes a status in this step.
HandlerWrites(q) ==
  /\ requests[q].pc \in {"dismissUpdate", "approveUpdate"}
  /\ requests'[q] # requests[q]
  /\ requests'[q].response # 500

\* C21 as stated: every status the handler writes goes to a repository that
\* is pending-approval at the time of the write and that the request names,
\* and no step of a request changes a repository outside its id set.
C21_Original ==
  [][\A q \in RequestIds :
       /\ HandlerWrites(q) =>
            /\ repoStatus[HandlerRepo(q)] = "pending-approval"
            /\ HandlerRepo(q) \in requests[q].repositoryIds
       /\ StepOf(q) =>
            \A r \in Repos \ requests'[q].repositoryIds :
              /\ repoStatus'[r] = repoStatus[r]
              /\ repoErrorMessage'[r] = repoErrorMessage[r]]_vars

\* Request q carried a body the validation accepts, from a user with a
\* configuration.
ValidRequest(q) ==
  /\ requests[q].userId \in ConfiguredUsers
  /\ requests[q].repositoryIds # {}
  /\ requests[q].action \in {"approve", "dismiss"}

\* C22 as stated: a request with a non-empty id list and a valid action,
\* none of whose operations was rejected, is answered as a success (200)
\* that acted on rows among its ids, also when none of them is
\* pending-approval.
C22_Original ==
  \A q \in RequestIds :
    requests[q].pc = "responded" /\ ValidRequest(q) /\ requests[q].response # 500 =>
      /\ requests[q].response = 200
      /\ \A i \in 1..Len(requests[q].repos) :
           requests[q].repos[i] \in requests[q].repositoryIds

\* The body of request q was read and fails the validation of lines 27-39.
RejectedBody(q) ==
  /\ requests[q].userId # Undefined
  /\ \/ requests[q].repositoryIds = {}
     \/ requests[q].action \notin {"approve", "dismiss"}

\* C23: a request whose repositoryIds are missing, not an array or empty, or
\* whose action is neither approve nor dismiss, is answered 400 in the step
\* that reads it; that step changes no repository row, and the request never
\* selects a row, sets up a task, creates a backup, records an audit entry
\* or starts a sync.
C23_ValidationRejects ==
  /\ [](\A q \in RequestIds :
          requests[q].pc # "new" /\ RejectedBody(q) =>
            /\ requests[q].pc = "responded"
            /\ requests[q].response = 400
            /\ requests[q].repos = <<>>
            /\ tasks[q] = NoTask
            /\ \A b \in backups : b.by # q
            /\ \A c \in syncCalls : c.by # q
            /\ \A j \in BagToSet(mirrorJobs) : j.by # q)
  /\ [][\A q \in RequestIds :
          StepOf(q) /\ requests'[q].userId # Undefined
            /\ (requests'[q].repositoryIds = {}
                  \/ requests'[q].action \notin {"approve", "dismiss"}) =>
            UNCHANGED <<repoStatus, repoErrorMessage, syncLock, tasks,
                        mirrorJobs, backups, syncCalls>>]_vars

\* An invalid action was sent for a repository that is pending-approval, and
\* was answered 400 with the repository still pending-approval.
C23_Witness ==
  \E q \in RequestIds : \E r \in Repos :
    /\ requests[q].pc = "responded"
    /\ requests[q].response = 400
    /\ requests[q].action = "delete"
    /\ r \in requests[q].repositoryIds
    /\ repoUserId[r] = requests[q].userId
    /\ repoStatus[r] = "pending-approval"

\* The handler of request q entered its loop over the selected rows.
LoopEntered(q) ==
  /\ requests[q].repos # <<>>
  /\ requests[q].action = "dismiss" \/ tasks[q].pc # "none"

\* C24 as stated: a failure on one row of a batch does not keep the handler
\* from the rows after it, so a request that entered its loop is answered
\* only after the loop reached the last selected row.
C24_Original ==
  \A q \in RequestIds :
    requests[q].pc = "responded" /\ LoopEntered(q) =>
      requests[q].next = Len(requests[q].repos)

\* The activity entry the task of request q records for repo.
SnapshotEntry(q, repo) ==
  [repositoryId |-> repo, message |-> "snapshot", status |-> "syncing", by |-> q]

\* C25 as stated: the approve task records its entry for a repository also
\* when the forced snapshot of that repository failed.
C25_Original ==
  \A b \in backups :
    ~b.created => CopiesIn(SnapshotEntry(b.by, b.repositoryId), mirrorJobs) >= 1

\* The approve request q was answered and its background task has ended.
ApproveFinished(q) ==
  /\ requests[q].pc = "responded"
  /\ requests[q].response = 200
  /\ requests[q].action = "approve"
  /\ tasks[q].pc = "done"

\* C26 as stated: once an approve request and its background task have
\* finished, no repository the request acted on is left syncing (unless
\* another sync of it is running).
C26_Original ==
  \A q \in RequestIds :
    ApproveFinished(q) =>
      \A i \in 1..Len(requests[q].repos) :
        syncLock[requests[q].repos[i]] = "free" =>
          repoStatus[requests[q].repos[i]] # "syncing"

\* C36 as stated: no update of the approve handler's status loop writes
\* syncing over the synced or error that a sync has left.
C36_Original ==
  [][\A q \in RequestIds :
       requests[q].pc = "approveUpdate" /\ HandlerWrites(q) =>
         repoStatus[HandlerRepo(q)] \notin {"synced", "error"}]_vars

\* C37 as stated: of two concurrent requests that name the same
\* pending-approval repository, at most one backs it up and at most one
\* starts a sync of it, and no sync is started of a repository for which a
\* dismissal was recorded.
C37_Original ==
  \A r \in Repos :
    /\ Cardinality({b \in backups : b.repositoryId = r}) <= 1
    /\ Cardinality({c \in syncCalls : c.repositoryId = r}) <= 1
    /\ (\E q \in RaceIds : CopiesIn(DismissedEntry(q, r), mirrorJobs) >= 1) =>
         \A c \in syncCalls : c.repositoryId # r

\* C38: a request selects, backs up, syncs and records entries only for
\* repositories of the authenticated user, and no step of a request or of
\* its task changes the status or the error message of a repository of
\* another user, also when the request names it and it is pending-approval.
C38_OwnerOnly ==
  /\ [](/\ \A q \in RequestIds : \A i \in 1..Len(requests[q].repos) :
             repoUserId[requests[q].repos[i]] = requests[q].userId
        /\ \A b \in backups :
             repoUserId[b.repositoryId] = requests[b.by].userId
        /\ \A c \in syncCalls :
             c.by # 0 => repoUserId[c.repositoryId] = requests[c.by].userId
        /\ \A j \in BagToSet(mirrorJobs) :
             repoUserId[j.repositoryId] = requests[j.by].userId)
  /\ [][\A q \in RequestIds :
          StepOf(q) =>
            \A r \in Repos :
              repoUserId[r] # requests'[q].userId =>
                /\ repoStatus'[r] = repoStatus[r]
                /\ repoErrorMessage'[r] = repoErrorMessage[r]]_vars

\* A user named a pending-approval repository of another user in an approve
\* request; the request was answered 404 and the repository is untouched.
C38_Witness ==
  \E q \in RequestIds : \E r \in Repos :
    /\ requests[q].pc = "responded"
    /\ requests[q].userId \in ConfiguredUsers
    /\ requests[q].userId # repoUserId[r]
    /\ requests[q].action = "approve"
    /\ r \in requests[q].repositoryIds
    /\ repoStatus[r] = "pending-approval"
    /\ requests[q].response = 404
    /\ backups = {} /\ syncCalls = {}

\* C39: for every stored configuration, the legacy ones that set only
\* backupBeforeSync included, the option the settings form shows as selected
\* is the strategy the resolver computed for that configuration.
C39_Original ==
  strategy # Undefined => formSelectedStrategy(config) = strategy

\* ------------------------------------- properties of the backup orchestrator

\* C27 as stated: for every owner and repository name the backup directory
\* is the root followed by the user id, the sanitized owner and the sanitized
\* repository name, three segments below the backup root.
C27_Original ==
  pathPc = "done" =>
    /\ pathResult.repoBackupDir =
         pathResult.backupRoot \o
           <<UserIdSegment, sanitizePathSegment(pathArgs.owner),
             sanitizePathSegment(pathArgs.repoName)>>
    /\ Len(pathResult.repoBackupDir) > Len(pathResult.backupRoot)
    /\ SubSeq(pathResult.repoBackupDir, 1, Len(pathResult.backupRoot)) =
         pathResult.backupRoot

\* C28: the retention count in force is at least 1 and is 20 while it is not
\* set. Every successful creation leaves at most that many snapshots, deletes
\* none it need not delete, and leaves the most recently created ones, the
\* one just created among them.
C28_RetentionPruning ==
  /\ [](/\ retentionCount(backupConfig.backupRetentionCount) >= 1
        /\ backupConfig.backupRetentionCount = {} =>
             /\ retentionCount(backupConfig.backupRetentionCount) = 20
             /\ Cardinality(snapshots) <= 20)
  /\ [][snapshotsCreated' = snapshotsCreated + 1 =>
          LET keep == retentionCount(backupConfig.backupRetentionCount)
              before == Cardinality(snapshots)
              after == Cardinality(snapshots')
          IN /\ after <= keep
             /\ after = IF before + 1 <= keep THEN before + 1 ELSE keep
             /\ {s.file : s \in snapshots'} =
                  (snapshotsCreated' - after + 1)..snapshotsCreated'
             /\ Snapshot(snapshotsCreated') \in snapshots']_vars

\* With the retention count not set, the twenty-first snapshot was created
\* and the oldest one deleted.
C28_Witness ==
  /\ backupConfig.backupRetentionCount = {}
  /\ lastCall.created
  /\ snapshotsCreated = 21
  /\ Cardinality(snapshots) = 20
  /\ Snapshot(1) \notin snapshots

\* C30: a call with force attempts the backup under every strategy; a call
\* without force attempts it exactly when shouldBackupForStrategy holds of
\* the strategy and the detection; a call that does not attempt it leaves
\* the directory as it was.
C30_ForceBypassesGate ==
  /\ [](lastCall.made =>
          /\ lastCall.force => lastCall.attempted
          /\ ~lastCall.force =>
               (lastCall.attempted <=>
                  shouldBackupForStrategy(backupConfig.backupStrategy,
                                          lastCall.detected))
          /\ lastCall.created => lastCall.attempted)
  /\ [][~lastCall'.attempted => snapshots' = snapshots]_vars

\* A forced call created a snapshot under the strategy disabled.
C30_Witness ==
  /\ lastCall.made
  /\ lastCall.force
  /\ ~lastCall.detected
  /\ backupConfig.backupStrategy = "disabled"
  /\ lastCall.created
  /\ snapshots # {}

\* ----------------------------------------------- properties of the strategy

Resolved == spc \in {"decide", "done"}
Decided == spc = "done"
ExplicitValid == config.backupStrategy \in Strategies
LegacySet == config.backupBeforeSync # {}
EnvStrategyValid == env.PRE_SYNC_BACKUP_STRATEGY \in Strategies
EnvDisabled == env.PRE_SYNC_BACKUP_ENABLED = "false"

\* C11: shouldBackupForStrategy is false for disabled and true for always
\* whatever detected is, and equals detected for on-force-push and
\* block-on-force-push; it gives a boolean for all four strategies.
C11_ShouldBackup ==
  Decided =>
    /\ decision.backup \in BOOLEAN
    /\ strategy = "disabled" => ~decision.backup
    /\ strategy = "always" => decision.backup
    /\ strategy \in {"on-force-push", "block-on-force-push"}
         => (decision.backup <=> decision.detected)

C11_Witness ==
  /\ Decided
  /\ strategy = "block-on-force-push"
  /\ decision.detected
  /\ decision.backup

\* C12: shouldBlockSyncForStrategy is true iff the strategy is
\* block-on-force-push and detected is true.
C12_ShouldBlock ==
  Decided =>
    (decision.block <=> (strategy = "block-on-force-push" /\ decision.detected))

C12_Witness ==
  /\ Decided
  /\ strategy = "block-on-force-push"
  /\ ~decision.detected
  /\ ~decision.block

\* C13: strategyNeedsDetection is true exactly for on-force-push and
\* block-on-force-push, which are exactly the strategies whose backup or
\* block decision changes with the detected flag.
C13_NeedsDetection ==
  Decided =>
    /\ decision.needsDetection <=> strategy \in {"on-force-push", "block-on-force-push"}
    /\ ~decision.needsDetection <=> strategy \in {"disabled", "always"}
    /\ decision.needsDetection <=>
         \/ shouldBackupForStrategy(strategy, TRUE) # shouldBackupForStrategy(strategy, FALSE)
         \/ shouldBlockSyncForStrategy(strategy, TRUE) # shouldBlockSyncForStrategy(strategy, FALSE)

C13_Witness ==
  /\ Decided
  /\ strategy = "always"
  /\ ~decision.needsDetection
  /\ decision.backup

\* C14: the resolved strategy is given by the highest-precedence input that
\* is set: explicit backupStrategy, then backupBeforeSync (true: always,
\* false: disabled), then PRE_SYNC_BACKUP_STRATEGY, then
\* PRE_SYNC_BACKUP_ENABLED (false: disabled), then on-force-push.
C14_Precedence ==
  Resolved =>
    /\ ExplicitValid => strategy = config.backupStrategy
    /\ (~ExplicitValid /\ LegacySet)
         => strategy = (IF config.backupBeforeSync = {TRUE} THEN "always" ELSE "disabled")
    /\ (~ExplicitValid /\ ~LegacySet /\ EnvStrategyValid)
         => strategy = env.PRE_SYNC_BACKUP_STRATEGY
    /\ (~ExplicitValid /\ ~LegacySet /\ ~EnvStrategyValid /\ EnvDisabled)
         => strategy = "disabled"
    /\ (~ExplicitValid /\ ~LegacySet /\ ~EnvStrategyValid /\ ~EnvDisabled)
         => strategy = "on-force-push"

C14_Witness ==
  /\ Resolved
  /\ config.backupStrategy = "on-force-push"
  /\ config.backupBeforeSync = {TRUE}
  /\ env.PRE_SYNC_BACKUP_STRATEGY = "block-on-force-push"
  /\ env.PRE_SYNC_BACKUP_ENABLED = "false"
  /\ strategy = "on-force-push"

\* C15: the resolver always returns one of the four strategies; an absent
\* configuration with nothing set in the environment gives on-force-push; an
\* explicit field or environment string that is no valid strategy resolves as
\* if it were not set.
C15_TotalAndValidated ==
  Resolved =>
    /\ strategy \in Strategies
    /\ (~config.hasGiteaConfig /\ env = NoEnv) => strategy = "on-force-push"
    /\ ~ExplicitValid
         => strategy = resolveBackupStrategy([config EXCEPT !.backupStrategy = Undefined], env)
    /\ ~EnvStrategyValid
         => strategy =
              resolveBackupStrategy(config, [env EXCEPT !.PRE_SYNC_BACKUP_STRATEGY = Undefined])

C15_Witness ==
  /\ Resolved
  /\ config.backupStrategy = "weekly"
  /\ config.backupBeforeSync = {}
  /\ env.PRE_SYNC_BACKUP_STRATEGY = "weekly"
  /\ env.PRE_SYNC_BACKUP_ENABLED = "false"
  /\ strategy = "disabled"

====
